---- MODULE Spec2Model ----
(***************************************************************************)
(* Model of iso: the session and resource lifecycle of an isolated Docker  *)
(* environment (container.go, docker.go, iso.go, the run command and the   *)
(* in-container supervisor).                                              *)
(*                                                                         *)
(* Strings are sequences of one-character strings, so that Sprintf,        *)
(* Trim, ReplaceAll and HasPrefix are computed character by character.     *)
(***************************************************************************)
EXTENDS Integers, Sequences, FiniteSets, TLC

VARIABLES
    containers,   \* engine: set of container records
    networks,     \* engine: set of network names
    volumes,      \* engine: set of volume names
    images,       \* engine: set of image tags
    cfg,          \* project descriptor and identity handed to the manager
    last,         \* outcome of the last CLI invocation
    nm,           \* naming workbench: identities and names computed
    procs,        \* concurrent invocations stepping through ensure-operations
    disk,         \* host filesystem: the directories and regular files that exist
    sv,           \* the in-container supervisor process, step by step
    tty           \* the caller's terminal and the exec call that borrows it

vars == <<containers, networks, volumes, images, cfg, last, nm, procs, disk, sv, tty>>

(***************************************************************************)
(* Strings                                                                 *)
(***************************************************************************)
S_default == <<"d","e","f","a","u","l","t">>
S_eph     == <<"e","p","h","-">>
S_network == <<"-","n","e","t","w","o","r","k">>
S_shell   == <<"-","s","h","e","l","l">>
S_fresh   == <<"-","f","r","e","s","h","-">>
S_dotgit  == <<".","g","i","t">>
S_dash    == <<"-">>
S_under   == <<"_">>

\* strings.HasPrefix
HasPrefix(s, prefix) ==
    /\ Len(s) >= Len(prefix)
    /\ SubSeq(s, 1, Len(prefix)) = prefix

\* strings.HasSuffix
HasSuffix(s, suffix) ==
    /\ Len(s) >= Len(suffix)
    /\ SubSeq(s, Len(s) - Len(suffix) + 1, Len(s)) = suffix

\* strings.Trim(s, "/")
RECURSIVE TrimLeft(_)
TrimLeft(s) ==
    IF s # <<>> /\ Head(s) = "/" THEN TrimLeft(Tail(s)) ELSE s

RECURSIVE TrimRight(_)
TrimRight(s) ==
    IF s # <<>> /\ s[Len(s)] = "/" THEN TrimRight(SubSeq(s, 1, Len(s) - 1)) ELSE s

Trim(s) == TrimRight(TrimLeft(s))

\* strings.ReplaceAll(s, "/", "-")
ReplaceAll(s) == [i \in 1..Len(s) |-> IF s[i] = "/" THEN "-" ELSE s[i]]

\* a sanitisation that keeps the slashes at both ends
Sanitize_NoTrim(path) == ReplaceAll(path)

\* the sanitisation both volume-name functions apply to a container path
Sanitize(path) == ReplaceAll(Trim(path))

\* fmt.Sprintf("%d", n) for the one-digit naturals the model draws
Digit(n) == <<<<"0","1","2","3","4","5","6","7","8","9">>[n + 1]>>

(***************************************************************************)
(* Naming and identity                                                     *)
(***************************************************************************)
\* A filesystem path: absolute or relative, a sequence of segments.
Path(abs, segs) == [abs |-> abs, segs |-> segs]

RECURSIVE CleanSegs(_, _)
CleanSegs(segs, acc) ==
    IF segs = <<>> THEN acc
    ELSE IF Head(segs) = <<".">> THEN CleanSegs(Tail(segs), acc)
    ELSE IF Head(segs) = <<".",".">> /\ acc # <<>>
         THEN CleanSegs(Tail(segs), SubSeq(acc, 1, Len(acc) - 1))
    ELSE IF Head(segs) = <<".",".">> THEN CleanSegs(Tail(segs), acc)
    ELSE CleanSegs(Tail(segs), Append(acc, Head(segs)))

\* filepath.Clean of an absolute path
Clean(p) == Path(p.abs, CleanSegs(p.segs, <<>>))

\* filepath.Join(a, b)
Join(a, b) == Clean(Path(a.abs, a.segs \o b.segs))

\* filepath.Base
Base(p) == IF p.segs = <<>> THEN <<"/">> ELSE p.segs[Len(p.segs)]

\* filepath.Dir
Dir(p) == IF p.segs = <<>> THEN p ELSE Path(p.abs, SubSeq(p.segs, 1, Len(p.segs) - 1))

\* git: "none" when rev-parse fails, else what --git-common-dir and --git-dir print
NoGit == [ok |-> FALSE]
Git(common, dir) == [ok |-> TRUE, common |-> common, dir |-> dir]

detectGitWorktree(projectRoot, git) ==
    LET worktreeProjectName == Base(projectRoot)
        commonPath == IF git.common.abs THEN Clean(git.common)
                      ELSE Join(projectRoot, git.common)
    IN  IF ~git.ok THEN [base |-> worktreeProjectName, worktree |-> worktreeProjectName]
        ELSE IF git.common # git.dir
                /\ commonPath.segs # <<>>
                /\ commonPath.segs[Len(commonPath.segs)] = S_dotgit
             THEN [base |-> Base(Dir(commonPath)), worktree |-> worktreeProjectName]
        ELSE [base |-> worktreeProjectName, worktree |-> worktreeProjectName]

\* newContainerManager: "" means the default session
NormSession(session) == IF session = <<>> THEN S_default ELSE session

getNetworkName(worktree, session) ==
    IF session = S_default THEN worktree \o S_network
    ELSE worktree \o S_dash \o session \o S_network

getContainerName(worktree, session) ==
    IF session = S_default THEN worktree \o S_shell
    ELSE worktree \o S_dash \o session \o S_shell

getImageName(worktree) == worktree \o S_shell

getVolumeNameForPath(worktree, session, path) ==
    IF session = S_default THEN worktree \o S_dash \o Sanitize(path)
    ELSE worktree \o S_dash \o session \o S_dash \o Sanitize(path)

getCacheVolumeNameForPath(base, path) ==
    base \o S_dash \o <<"c","a","c","h","e">> \o S_dash \o Sanitize(path)

getServiceContainerName(project, session, serviceName) ==
    IF session = S_default THEN project \o S_under \o serviceName
    ELSE project \o S_dash \o session \o S_under \o serviceName

getFreshServiceName(project, session, serviceName, runID) ==
    IF session = S_default THEN project \o S_under \o serviceName \o S_fresh \o runID
    ELSE project \o S_dash \o session \o S_under \o serviceName \o S_fresh \o runID

getPeersNetworkName(worktree, peers) ==
    IF ~peers.present THEN <<>>
    ELSE IF peers.network # <<>> THEN peers.network
    ELSE worktree \o <<"-","i","s","o","-","p","e","e","r","s">>

(***************************************************************************)
(* The container engine behind dockerClient.                               *)
(* A context c threads the engine state e through one invocation, with the *)
(* log of mutating engine calls issued and the set f of engine calls that  *)
(* fail in this invocation.                                                *)
(***************************************************************************)
NIL == "nil"
ErrEngine == "engine error"
ErrExists == "already exists"
ErrNotFound == "not found"
ErrNoSuch == "No such container"
ErrInUse == "in use"
ErrConflict == "name conflict"

Engine(c, n, v, i) ==
    [containers |-> c, networks |-> n, volumes |-> v, images |-> i]

\* known: container ids some earlier result still names; the engine never
\* hands out an id twice, so a new container gets an id outside known
Ctx(e, f, known) == [e |-> e, log |-> <<>>, f |-> f, known |-> known]

NoId == <<>>

\* the id of a new container: never one the engine holds or an earlier result names
NewId(c, name) ==
    LET used == {k.id : k \in c.e.containers} \cup c.known
    IN  <<name, CHOOSE n \in 1..(Cardinality(used) + 1) :
                   /\ <<name, n>> \notin used
                   /\ \A m \in 1..(n - 1) : <<name, m>> \in used>>

Logged(c, call, target) == [c EXCEPT !.log = Append(@, <<call, target>>)]

\* the name the log shows for a container id
NameOf(c, id) ==
    IF \E k \in c.e.containers : k.id = id
    THEN (CHOOSE k \in c.e.containers : k.id = id).name
    ELSE <<>>

\* a fault point is an engine call, with the service it is issued for if any
F(call) == <<call, <<>>>>
FailsAt(c, point) == point \in c.f
Fails(c, call) == FailsAt(c, F(call))

ByName(e, name) == {k \in e.containers : k.name = name}
ById(e, id) == {k \in e.containers : k.id = id}

\* dockerClient.imageExists
imageExists(c, imageName) ==
    IF Fails(c, "ImageInspect") THEN [err |-> ErrEngine, val |-> FALSE]
    ELSE [err |-> NIL, val |-> imageName \in c.e.images]

\* dockerClient.buildImage
buildImage(c, imageName) ==
    LET c1 == Logged(c, "ImageBuild", imageName)
    IN  IF Fails(c, "ImageBuild") THEN [c |-> c1, err |-> ErrEngine]
        ELSE [c |-> [c1 EXCEPT !.e.images = @ \cup {imageName}], err |-> NIL]

\* dockerClient.pullImage
pullImage(c, imageName) ==
    LET c1 == Logged(c, "ImagePull", imageName)
    IN  IF Fails(c, "ImagePull") THEN [c |-> c1, err |-> ErrEngine]
        ELSE [c |-> [c1 EXCEPT !.e.images = @ \cup {imageName}], err |-> NIL]

\* dockerClient.containerExists
containerExists(c, containerName) ==
    IF Fails(c, "ContainerList") THEN [err |-> ErrEngine, val |-> FALSE]
    ELSE [err |-> NIL, val |-> ByName(c.e, containerName) # {}]

\* dockerClient.isContainerRunning
isContainerRunning(c, containerName) ==
    IF Fails(c, "ContainerList") THEN [err |-> ErrEngine, val |-> FALSE]
    ELSE [err |-> NIL, val |-> \E k \in ByName(c.e, containerName) : k.running]

\* dockerClient.getContainerID
getContainerID(c, containerName) ==
    IF Fails(c, "ContainerList") THEN [err |-> ErrEngine, val |-> NoId]
    ELSE IF ByName(c.e, containerName) = {} THEN [err |-> ErrNotFound, val |-> NoId]
    ELSE [err |-> NIL, val |-> (CHOOSE k \in ByName(c.e, containerName) : TRUE).id]

\* dockerClient.createNetwork: the engine refuses a second network of the
\* same name, and the wrapper returns that answer as an error
createNetwork(c, networkName) ==
    LET c1 == Logged(c, "NetworkCreate", networkName)
    IN  IF Fails(c, "NetworkCreate") THEN [c |-> c1, err |-> ErrEngine]
        ELSE IF networkName \in c.e.networks THEN [c |-> c1, err |-> ErrExists]
        ELSE [c |-> [c1 EXCEPT !.e.networks = @ \cup {networkName}], err |-> NIL]

\* dockerClient.networkExists
networkExists(c, networkName) ==
    IF Fails(c, "NetworkList") THEN [err |-> ErrEngine, val |-> FALSE]
    ELSE [err |-> NIL, val |-> networkName \in c.e.networks]

\* dockerClient.removeNetwork: refused while a running container is attached
removeNetwork(c, networkName) ==
    LET c1 == Logged(c, "NetworkRemove", networkName)
    IN  IF Fails(c, "NetworkRemove") THEN [c |-> c1, err |-> ErrEngine]
        ELSE IF networkName \notin c.e.networks THEN [c |-> c1, err |-> ErrNotFound]
        ELSE IF \E k \in c.e.containers : k.running /\ networkName \in k.nets
             THEN [c |-> c1, err |-> ErrInUse]
        ELSE [c |-> [c1 EXCEPT !.e.networks = @ \ {networkName}], err |-> NIL]

\* dockerClient.createVolume: the engine returns the existing volume of a name
createVolume(c, volumeName) ==
    LET c1 == Logged(c, "VolumeCreate", volumeName)
    IN  IF Fails(c, "VolumeCreate") THEN [c |-> c1, err |-> ErrEngine]
        ELSE [c |-> [c1 EXCEPT !.e.volumes = @ \cup {volumeName}], err |-> NIL]

\* dockerClient.volumeExists
volumeExists(c, volumeName) ==
    IF Fails(c, "VolumeInspect") THEN [err |-> ErrEngine, val |-> FALSE]
    ELSE [err |-> NIL, val |-> volumeName \in c.e.volumes]

\* dockerClient.removeVolume (force): refused while a container mounts it
removeVolume(c, volumeName) ==
    LET c1 == Logged(c, "VolumeRemove", volumeName)
    IN  IF Fails(c, "VolumeRemove") THEN [c |-> c1, err |-> ErrEngine]
        ELSE IF \E k \in c.e.containers : volumeName \in k.mounts
             THEN [c |-> c1, err |-> ErrInUse]
        ELSE [c |-> [c1 EXCEPT !.e.volumes = @ \ {volumeName}], err |-> NIL]

\* client.ContainerCreate: spec carries name, labels, mounts and networks
ContainerCreate(c, point, spec) ==
    LET c1 == Logged(c, "ContainerCreate", spec.name)
        k  == [spec EXCEPT !.id = NewId(c, spec.name), !.running = FALSE]
    IN  IF FailsAt(c, point) THEN [c |-> c1, err |-> ErrEngine, id |-> NoId]
        ELSE IF ByName(c.e, spec.name) # {} THEN [c |-> c1, err |-> ErrConflict, id |-> NoId]
        ELSE [c |-> [c1 EXCEPT !.e.containers = @ \cup {k},
                               !.known = @ \cup {k.id},
                               !.e.volumes = @ \cup spec.mounts],
              err |-> NIL, id |-> k.id]

\* client.ContainerStart: a container whose network is missing does not start
ContainerStart(c, point, id) ==
    LET c1 == Logged(c, "ContainerStart", NameOf(c, id))
    IN  IF FailsAt(c, point) THEN [c |-> c1, err |-> ErrEngine]
        ELSE IF ById(c.e, id) = {} THEN [c |-> c1, err |-> ErrNoSuch]
        ELSE IF \E k \in ById(c.e, id) : ~(k.nets \subseteq c.e.networks)
             THEN [c |-> c1, err |-> ErrNotFound]
        ELSE [c |-> [c1 EXCEPT !.e.containers =
                        {IF k.id = id THEN [k EXCEPT !.running = TRUE] ELSE k : k \in @}],
              err |-> NIL]

\* client.ContainerStop: an auto-remove container is removed once stopped
ContainerStop(c, id) ==
    LET c1 == Logged(c, "ContainerStop", NameOf(c, id))
    IN  IF Fails(c, "ContainerStop") THEN [c |-> c1, err |-> ErrEngine]
        ELSE IF ById(c.e, id) = {} THEN [c |-> c1, err |-> ErrNoSuch]
        ELSE [c |-> [c1 EXCEPT !.e.containers =
                        {IF k.id = id THEN [k EXCEPT !.running = FALSE] ELSE k :
                            k \in {x \in @ : ~(x.id = id /\ x.autoRemove)}}],
              err |-> NIL]

\* client.ContainerRemove without force: a running container is not removed
ContainerRemove(c, id) ==
    LET c1 == Logged(c, "ContainerRemove", NameOf(c, id))
    IN  IF Fails(c, "ContainerRemove") THEN [c |-> c1, err |-> ErrEngine]
        ELSE IF ById(c.e, id) = {} THEN [c |-> c1, err |-> ErrNoSuch]
        ELSE IF \E k \in ById(c.e, id) : k.running THEN [c |-> c1, err |-> ErrInUse]
        ELSE [c |-> [c1 EXCEPT !.e.containers = {k \in @ : k.id # id}], err |-> NIL]

\* dockerClient.stopAndRemoveContainer: stop, then remove; a container that
\* is already gone (auto-removed) is not an error
stopAndRemoveContainer(c, id) ==
    CHOOSE result \in
      {CHOOSE result \in
         {IF r1.err \notin {NIL, ErrNoSuch} THEN [c |-> r1.c, removed |-> FALSE, err |-> r1.err]
          ELSE IF r2.err = ErrNoSuch THEN [c |-> r2.c, removed |-> FALSE, err |-> NIL]
          ELSE IF r2.err # NIL THEN [c |-> r2.c, removed |-> FALSE, err |-> r2.err]
          ELSE [c |-> r2.c, removed |-> TRUE, err |-> NIL]
          : r2 \in {ContainerRemove(r1.c, id)}} : TRUE
       : r1 \in {ContainerStop(c, id)}} : TRUE

\* dockerClient.listProjectContainers: every container, running or not,
\* labelled with the project and the session
listProjectContainers(c, projectName, session) ==
    IF Fails(c, "ContainerList") \/ FailsAt(c, <<"ContainerList", <<"stop">>>>) THEN [err |-> ErrEngine, val |-> {}]
    ELSE [err |-> NIL,
          val |-> {k \in c.e.containers : k.project = projectName /\ k.session = session}]

\* dockerClient.listStaleEphemeralContainers: containers of the project
\* labelled ephemeral
listStaleEphemeralContainers(c, projectName) ==
    IF Fails(c, "ContainerList") THEN [err |-> ErrEngine, val |-> {}]
    ELSE [err |-> NIL,
          val |-> {k \in c.e.containers : k.project = projectName /\ k.ephemeral}]

\* dockerClient.listDanglingVolumes: volumes no container references
listDanglingVolumes(c) ==
    IF Fails(c, "VolumeList") THEN [err |-> ErrEngine, val |-> {}]
    ELSE [err |-> NIL,
          val |-> {v \in c.e.volumes : \A k \in c.e.containers : v \notin k.mounts}]

\* dockerClient.listUnusedNetworks: networks no container is attached to
listUnusedNetworks(c) ==
    IF Fails(c, "NetworkList") THEN [err |-> ErrEngine, val |-> {}]
    ELSE [err |-> NIL,
          val |-> {n \in c.e.networks : \A k \in c.e.containers : n \notin k.nets}]

\* an arbitrary enumeration of a finite set (the engine's listing order)
RECURSIVE SetToSeq(_)
SetToSeq(S) ==
    IF S = {} THEN <<>>
    ELSE LET x == CHOOSE y \in S : TRUE IN <<x>> \o SetToSeq(S \ {x})

Range(q) == {q[i] : i \in 1..Len(q)}

(***************************************************************************)
(* containerManager                                                        *)
(***************************************************************************)
ServiceImage(serviceName) == <<"i","m","g",":">> \o serviceName

\* the fields newContainerManager derives; order is the order in which this
\* invocation happens to range over the services map
Manager(config, session, order) ==
    CHOOSE cm \in {
        [session             |-> sess,
         projectName         |-> names.worktree,
         baseProjectName     |-> names.base,
         worktreeProjectName |-> names.worktree,
         projectRoot         |-> config.root,
         imageName           |-> getImageName(names.worktree),
         containerName       |-> getContainerName(names.worktree, sess),
         networkName         |-> getNetworkName(names.worktree, sess),
         peersNetworkName    |-> getPeersNetworkName(names.worktree, config.peers),
         peers               |-> config.peers,
         services            |-> order,
         volumes             |-> config.volumes,
         cache               |-> config.cache,
         cacheDir            |-> config.cacheDir]
        : names \in {detectGitWorktree(config.root, config.git)},
          sess \in {NormSession(session)}} : TRUE

sessionVolumeNames(cm) ==
    [i \in 1..Len(cm.volumes) |->
        getVolumeNameForPath(cm.worktreeProjectName, cm.session, cm.volumes[i])]

\* cache volumes named after the worktree
cacheVolumeNames_PerWorktree(cm) ==
    [i \in 1..Len(cm.cache) |->
        getCacheVolumeNameForPath(cm.worktreeProjectName, cm.cache[i])]

cacheVolumeNames(cm) ==
    [i \in 1..Len(cm.cache) |-> getCacheVolumeNameForPath(cm.baseProjectName, cm.cache[i])]

\* one pass of the check-then-create loops of ensureVolumes
RECURSIVE ensureVolumeList(_, _)
ensureVolumeList(c, names) ==
    IF names = <<>> THEN [c |-> c, err |-> NIL]
    ELSE LET exists == volumeExists(c, Head(names))
             made   == createVolume(c, Head(names))
         IN  IF exists.err # NIL THEN [c |-> c, err |-> exists.err]
             ELSE IF exists.val THEN ensureVolumeList(c, Tail(names))
             ELSE IF made.err # NIL THEN [c |-> made.c, err |-> made.err]
             ELSE ensureVolumeList(made.c, Tail(names))

ensureVolumes(cm, c) ==
    ensureVolumeList(c, sessionVolumeNames(cm)
                        \o (IF cm.cacheDir THEN <<>> ELSE cacheVolumeNames(cm)))

\* an image built whether or not it exists
ensureImage_AlwaysBuilds(cm, c) == buildImage(c, cm.imageName)

ensureImage(cm, c) ==
    LET exists == imageExists(c, cm.imageName)
    IN  IF exists.err # NIL THEN [c |-> c, err |-> exists.err]
        ELSE IF ~exists.val THEN buildImage(c, cm.imageName)
        ELSE [c |-> c, err |-> NIL]

\* a network created without asking whether it exists
ensureNetwork_AlwaysCreates(cm, c) == createNetwork(c, cm.networkName)

ensureNetwork(cm, c) ==
    LET exists == networkExists(c, cm.networkName)
    IN  IF exists.err # NIL THEN [c |-> c, err |-> exists.err]
        ELSE IF ~exists.val THEN createNetwork(c, cm.networkName)
        ELSE [c |-> c, err |-> NIL]

ensurePeersNetwork(cm, c) ==
    LET exists == networkExists(c, cm.peersNetworkName)
    IN  IF ~cm.peers.present THEN [c |-> c, err |-> "no peers configured"]
        ELSE IF exists.err # NIL THEN [c |-> c, err |-> exists.err]
        ELSE IF ~exists.val THEN createNetwork(c, cm.peersNetworkName)
        ELSE [c |-> c, err |-> NIL]

isEphemeralSession(session) == HasPrefix(session, S_eph)

\* the container startContainer asks the engine to create
shellSpec(cm) ==
    [id |-> NoId, name |-> cm.containerName, running |-> FALSE,
     project |-> cm.projectName, dir |-> cm.projectRoot, session |-> cm.session,
     role |-> "shell", service |-> FALSE, fresh |-> FALSE, peer |-> FALSE,
     ephemeral  |-> isEphemeralSession(cm.session),
     autoRemove |-> isEphemeralSession(cm.session),
     nets   |-> IF cm.services # <<>> THEN {cm.networkName} ELSE {},
     mounts |-> Range(sessionVolumeNames(cm))
                \cup (IF cm.cacheDir THEN {} ELSE Range(cacheVolumeNames(cm)))]

startContainer(cm, c) ==
    CHOOSE result \in
      {CHOOSE result \in
         {CHOOSE result \in
            {IF vols.err # NIL THEN [c |-> vols.c, err |-> vols.err, id |-> NoId]
             ELSE IF created.err # NIL THEN [c |-> created.c, err |-> created.err, id |-> NoId]
             ELSE IF started.err # NIL THEN [c |-> started.c, err |-> started.err, id |-> NoId]
             ELSE [c |-> started.c, err |-> NIL, id |-> created.id]
             : started \in {ContainerStart(created.c, F("ContainerStart"), created.id)}} : TRUE
          : created \in {ContainerCreate(vols.c, F("ContainerCreate"), shellSpec(cm))}} : TRUE
       : vols \in {ensureVolumes(cm, c)}} : TRUE

serviceSpec(cm, serviceName, containerName, fresh) ==
    [id |-> NoId, name |-> containerName, running |-> FALSE,
     project |-> cm.projectName, dir |-> cm.projectRoot, session |-> cm.session,
     role |-> serviceName, service |-> TRUE, fresh |-> fresh, peer |-> FALSE,
     ephemeral |-> FALSE, autoRemove |-> fresh,
     nets |-> {cm.networkName}, mounts |-> {}]

\* the loop of startFreshServices over the remaining services; ids are the
\* containers started so far
RECURSIVE startFreshLoop(_, _, _, _, _)
startFreshLoop(cm, c, runID, todo, ids) ==
    IF todo = <<>> THEN [c |-> c, err |-> NIL, ids |-> ids]
    ELSE LET serviceName == Head(todo)
             name == getFreshServiceName(cm.projectName, cm.session, serviceName, runID)
         IN
      CHOOSE result \in
       {CHOOSE result \in
         {CHOOSE result \in
           {CHOOSE result \in
             {IF exists.err # NIL THEN [c |-> c, err |-> exists.err, ids |-> {}]
              ELSE IF pulled.err # NIL THEN [c |-> pulled.c, err |-> pulled.err, ids |-> {}]
              ELSE IF created.err # NIL THEN [c |-> created.c, err |-> created.err, ids |-> {}]
              ELSE IF started.err # NIL THEN [c |-> started.c, err |-> started.err, ids |-> {}]
              ELSE startFreshLoop(cm, started.c, runID, Tail(todo), ids \cup {created.id})
              : started \in {ContainerStart(created.c, <<"ServiceStart", serviceName>>,
                                            created.id)}} : TRUE
            : created \in {ContainerCreate(pulled.c, <<"ServiceCreate", serviceName>>,
                                           serviceSpec(cm, serviceName, name, TRUE))}} : TRUE
          : pulled \in {IF exists.val THEN [c |-> c, err |-> NIL]
                        ELSE pullImage(c, ServiceImage(serviceName))}} : TRUE
        : exists \in {imageExists(c, ServiceImage(serviceName))}} : TRUE

startFreshServices(cm, c, runID) ==
    LET net == ensureNetwork(cm, c)
    IN  IF cm.services = <<>> THEN [c |-> c, err |-> NIL, ids |-> {}]
        ELSE IF net.err # NIL THEN [c |-> net.c, err |-> net.err, ids |-> {}]
        ELSE startFreshLoop(cm, net.c, runID, cm.services, {})

RECURSIVE stopFreshLoop(_, _)
stopFreshLoop(c, ids) ==
    IF ids = <<>> THEN c
    ELSE stopFreshLoop(ContainerStop(c, Head(ids)).c, Tail(ids))

\* stop errors are logged only
stopFreshServices(cm, c, serviceContainerIDs) ==
    stopFreshLoop(c, SetToSeq(serviceContainerIDs))

RECURSIVE allRunning(_, _, _)
allRunning(cm, c, todo) ==
    IF todo = <<>> THEN TRUE
    ELSE LET running == isContainerRunning(c,
                 getServiceContainerName(cm.projectName, cm.session, Head(todo)))
         IN  IF running.err # NIL \/ ~running.val THEN FALSE
             ELSE allRunning(cm, c, Tail(todo))

\* a check that is content with one service running
arePersistentServicesRunning_Any(cm, c) ==
    \E i \in 1..Len(cm.services) : allRunning(cm, c, <<cm.services[i]>>)

arePersistentServicesRunning(cm, c) ==
    IF cm.services = <<>> THEN FALSE ELSE allRunning(cm, c, cm.services)

(***************************************************************************)
(* The in-container supervisor (iso in-env run) and process exit           *)
(***************************************************************************)
Absent == -2        \* the hook script does not exist

\* os.Exit: the status the parent observes
OsExit(code) == code % 256

\* main(): an ExitError exits with its code, any other error with 1
\* an outcome is [err |-> NIL], [err |-> "exit", code |-> n] or [err |-> other]
mainExit(outcome) ==
    IF outcome.err = NIL THEN 0
    ELSE IF outcome.err = "exit" THEN OsExit(outcome.code)
    ELSE 1

\* a supervisor that lets a failing post-run.sh decide the result
inEnvHandler_PostHookDecides(sup, hasServices) ==
    IF hasServices /\ ~sup.ready
    THEN [err |-> "service not ready", code |-> 0, steps |-> <<"wait">>]
    ELSE IF sup.pre \notin {Absent, 0}
    THEN [err |-> "exit", code |-> sup.pre, steps |-> <<"wait", "pre">>]
    ELSE LET before == IF sup.pre = Absent THEN <<"wait">> ELSE <<"wait", "pre">>
             after  == IF sup.post = Absent THEN <<"main">> ELSE <<"main", "post">>
             code   == IF sup.post \notin {Absent, 0} THEN sup.post ELSE sup.main
         IN  IF code # 0
             THEN [err |-> "exit", code |-> code, steps |-> before \o after]
             ELSE [err |-> NIL, code |-> 0, steps |-> before \o after]

\* registerInEnvCommand handler; sup is what the container holds: whether
\* the declared services become reachable, and the exit codes of pre-run.sh,
\* the command and post-run.sh
inEnvHandler(sup, hasServices) ==
    IF hasServices /\ ~sup.ready
    THEN [err |-> "service not ready", code |-> 0, steps |-> <<"wait">>]
    ELSE IF sup.pre \notin {Absent, 0}
    THEN [err |-> "exit", code |-> sup.pre, steps |-> <<"wait", "pre">>]
    ELSE LET before == IF sup.pre = Absent THEN <<"wait">> ELSE <<"wait", "pre">>
             after  == IF sup.post = Absent THEN <<"main">> ELSE <<"main", "post">>
         IN  IF sup.main # 0
             THEN [err |-> "exit", code |-> sup.main, steps |-> before \o after]
             ELSE [err |-> NIL, code |-> 0, steps |-> before \o after]

\* the exit status of the in-container supervisor process
InEnvExit(sup, hasServices) == mainExit(inEnvHandler(sup, hasServices))

(***************************************************************************)
(* runCommand                                                              *)
(***************************************************************************)
\* time.Now().UnixNano() printed with %d: a value no earlier run has seen,
\* here the first one-digit number no fresh container's name ends with
Now(c) ==
    Digit(CHOOSE n \in 1..9 :
            /\ \A k \in c.e.containers : ~(k.fresh /\ HasSuffix(k.name, S_fresh \o Digit(n)))
            /\ \A m \in 1..(n - 1) :
                  \E k \in c.e.containers : k.fresh /\ HasSuffix(k.name, S_fresh \o Digit(m)))

\* a dispatch that never asks whether the container is running
acquireShell_NoRunningCheck(cm, c) ==
    LET exists    == containerExists(c, cm.containerName)
        got       == getContainerID(c, cm.containerName)
        restarted == ContainerStart(c, F("ContainerStart"), got.val)
        image     == ensureImage(cm, c)
    IN  IF exists.err # NIL THEN [c |-> c, err |-> exists.err, id |-> NoId]
        ELSE IF exists.val
             THEN IF got.err # NIL THEN [c |-> c, err |-> got.err, id |-> NoId]
                  ELSE IF restarted.err # NIL
                       THEN [c |-> restarted.c, err |-> restarted.err, id |-> NoId]
                  ELSE [c |-> restarted.c, err |-> NIL, id |-> got.val]
        ELSE IF image.err # NIL THEN [c |-> image.c, err |-> image.err, id |-> NoId]
        ELSE startContainer(cm, image.c)

\* a dispatch that creates the container without asking for the image
acquireShell_NoImage(cm, c) ==
    LET running   == isContainerRunning(c, cm.containerName)
        exists    == containerExists(c, cm.containerName)
        got       == getContainerID(c, cm.containerName)
        restarted == ContainerStart(c, F("ContainerStart"), got.val)
    IN  IF running.err # NIL THEN [c |-> c, err |-> running.err, id |-> NoId]
        ELSE IF running.val THEN [c |-> c, err |-> got.err, id |-> got.val]
        ELSE IF exists.val
             THEN IF restarted.err # NIL
                  THEN [c |-> restarted.c, err |-> restarted.err, id |-> NoId]
                  ELSE [c |-> restarted.c, err |-> NIL, id |-> got.val]
        ELSE startContainer(cm, c)

\* container.go 544-584: reuse the running container, start the stopped one,
\* or build the image and create the container
acquireShell(cm, c) ==
    LET running   == isContainerRunning(c, cm.containerName)
        exists    == containerExists(c, cm.containerName)
        got       == getContainerID(c, cm.containerName)
        restarted == ContainerStart(c, F("ContainerStart"), got.val)
        image     == ensureImage(cm, c)
    IN  IF running.err # NIL THEN [c |-> c, err |-> running.err, id |-> NoId]
        ELSE IF running.val THEN [c |-> c, err |-> got.err, id |-> got.val]
        ELSE IF exists.err # NIL THEN [c |-> c, err |-> exists.err, id |-> NoId]
        ELSE IF exists.val
             THEN IF got.err # NIL THEN [c |-> c, err |-> got.err, id |-> NoId]
                  ELSE IF restarted.err # NIL
                       THEN [c |-> restarted.c, err |-> restarted.err, id |-> NoId]
                  ELSE [c |-> restarted.c, err |-> NIL, id |-> got.val]
        ELSE IF image.err # NIL THEN [c |-> image.c, err |-> image.err, id |-> NoId]
        ELSE startContainer(cm, image.c)

\* container.go 695-786: exec create, attach, wait for output, inspect
execInContainer(cm, c, id, sup) ==
    IF Fails(c, "ExecCreate") \/ ~\E k \in ById(c.e, id) : k.running
    THEN [err |-> "failed to create exec", code |-> 0, steps |-> <<>>]
    ELSE IF Fails(c, "ExecAttach")
    THEN [err |-> "failed to attach to exec", code |-> 0, steps |-> <<>>]
    ELSE IF Fails(c, "Output")
    THEN [err |-> "failed to read output", code |-> 0,
          steps |-> inEnvHandler(sup, cm.services # <<>>).steps]
    ELSE IF Fails(c, "ExecInspect")
    THEN [err |-> "failed to inspect exec", code |-> 0,
          steps |-> inEnvHandler(sup, cm.services # <<>>).steps]
    ELSE [err |-> NIL, code |-> InEnvExit(sup, cm.services # <<>>),
          steps |-> inEnvHandler(sup, cm.services # <<>>).steps]

\* what runCommand returns, with what an observer of the call can see:
\* the container the command was exec'd in, and the fresh service
\* containers of this call that are still there when it returns
RunResult(c, code, err, execId, steps, runID) ==
    [c |-> c, code |-> code, err |-> err, execId |-> execId, steps |-> steps,
     freshLeft |-> {k.id : k \in {x \in c.e.containers :
                                     x.fresh /\ HasSuffix(x.name, S_fresh \o runID)}}]

runCommand(cm, c, sup) ==
    CHOOSE result \in
     {CHOOSE result \in
       {CHOOSE result \in
         {CHOOSE result \in
           {CHOOSE result \in
             {IF persistentServicesRunning
              THEN RunResult(done.c, done.code, done.err, done.id, done.steps, runID)
              ELSE IF fresh.err # NIL
              THEN RunResult(fresh.c, 0, fresh.err, NoId, <<>>, runID)
              ELSE RunResult(stopFreshServices(cm, done.c, fresh.ids),
                             done.code, done.err, done.id, done.steps, runID)
              : done \in {IF shell.err # NIL
                          THEN [c |-> shell.c, code |-> 0, err |-> shell.err,
                                id |-> NoId, steps |-> <<>>]
                          ELSE [c |-> shell.c, code |-> exec.code, err |-> exec.err,
                                id |-> shell.id, steps |-> exec.steps]}} : TRUE
            : exec \in {execInContainer(cm, shell.c, shell.id, sup)}} : TRUE
          : shell \in {acquireShell(cm, IF persistentServicesRunning THEN c ELSE fresh.c)}} : TRUE
        : fresh \in {startFreshServices(cm, c, runID)}} : TRUE
      : persistentServicesRunning \in {arePersistentServicesRunning(cm, c)},
        runID \in {Now(c)}} : TRUE

(***************************************************************************)
(* reset, stop, prune, sweep                                               *)
(***************************************************************************)
\* a reset that asks for the removal of the session network as well
resetContainer_AlsoNetwork(cm, c) ==
    LET got     == getContainerID(c, cm.containerName)
        removed == stopAndRemoveContainer(c, got.val)
    IN  IF got.err # NIL THEN [c |-> c, err |-> NIL]
        ELSE [c |-> removeNetwork(removed.c, cm.networkName).c, err |-> removed.err]

resetContainer(cm, c) ==
    LET exists  == containerExists(c, cm.containerName)
        got     == getContainerID(c, cm.containerName)
        removed == stopAndRemoveContainer(c, got.val)
    IN  IF exists.err # NIL THEN [c |-> c, err |-> exists.err]
        ELSE IF ~exists.val THEN [c |-> c, err |-> NIL]
        ELSE IF got.err # NIL THEN [c |-> c, err |-> got.err]
        ELSE [c |-> removed.c, err |-> removed.err]

RECURSIVE stopAndRemoveAll(_, _)
stopAndRemoveAll(c, ids) ==
    IF ids = <<>> THEN c
    ELSE stopAndRemoveAll(stopAndRemoveContainer(c, Head(ids)).c, Tail(ids))

\* remove each volume of the list that exists; errors are logged only
RECURSIVE removeExistingVolumes(_, _)
removeExistingVolumes(c, names) ==
    IF names = <<>> THEN c
    ELSE LET exists == volumeExists(c, Head(names))
         IN  IF exists.err # NIL \/ ~exists.val THEN removeExistingVolumes(c, Tail(names))
             ELSE removeExistingVolumes(removeVolume(c, Head(names)).c, Tail(names))

RECURSIVE removeVolumes(_, _)
removeVolumes(c, names) ==
    IF names = <<>> THEN c
    ELSE removeVolumes(removeVolume(c, Head(names)).c, Tail(names))

RECURSIVE removeNetworks(_, _)
removeNetworks(c, names) ==
    IF names = <<>> THEN c
    ELSE removeNetworks(removeNetwork(c, Head(names)).c, Tail(names))

stopContainer(cm, c) ==
    LET prefix == cm.worktreeProjectName \o S_dash \o cm.session \o S_dash
    IN
    CHOOSE result \in
     {CHOOSE result \in
       {CHOOSE result \in
         {IF found.err # NIL THEN [c |-> c, err |-> found.err]
          ELSE IF found.val = {} THEN [c |-> c, err |-> NIL]
          ELSE IF isEphemeralSession(cm.session) /\ dangling.err = NIL
               THEN [c |-> removeVolumes(c3, SetToSeq({v \in dangling.val :
                                                         HasPrefix(v, prefix)})),
                     err |-> NIL]
          ELSE [c |-> c3, err |-> NIL]
          : dangling \in {listDanglingVolumes(c3)}} : TRUE
        : c3 \in {removeExistingVolumes(
                    removeNetwork(stopAndRemoveAll(c, SetToSeq({k.id : k \in found.val})),
                                  cm.networkName).c,
                    sessionVolumeNames(cm))}} : TRUE
      : found \in {listProjectContainers(c, cm.projectName, cm.session)}} : TRUE

pruneCacheVolumes(cm, c) ==
    [c |-> removeExistingVolumes(c, cacheVolumeNames(cm)), err |-> NIL]

RECURSIVE sweepContainers(_, _)
sweepContainers(c, ids) ==
    IF ids = <<>> THEN c
    ELSE sweepContainers(ContainerRemove(ContainerStop(c, Head(ids)).c, Head(ids)).c, Tail(ids))

isEphemeralName(cm, name) ==
    \/ HasPrefix(name, cm.worktreeProjectName \o S_dash \o S_eph)
    \/ HasPrefix(name, cm.worktreeProjectName \o S_dash \o <<"e","p","h","e","m","e","r","a","l","-">>)

cleanupStaleResources(cm, c) ==
    CHOOSE result \in
     {CHOOSE result \in
       {CHOOSE result \in
         {CHOOSE result \in
           {CHOOSE result \in
             {IF stale.err # NIL THEN c
              ELSE IF dangling.err # NIL THEN c1
              ELSE IF unused.err # NIL THEN c2
              ELSE removeNetworks(c2, SetToSeq({n \in unused.val : isEphemeralName(cm, n)}))
              : unused \in {listUnusedNetworks(c2)}} : TRUE
            : c2 \in {removeVolumes(c1, SetToSeq({v \in dangling.val :
                                                    isEphemeralName(cm, v)}))}} : TRUE
          : dangling \in {listDanglingVolumes(c1)}} : TRUE
        : c1 \in {sweepContainers(c, SetToSeq({k.id : k \in stale.val}))}} : TRUE
      : stale \in {listStaleEphemeralContainers(c, cm.worktreeProjectName)}} : TRUE

(***************************************************************************)
(* persistent services and Client.Start                                    *)
(***************************************************************************)
startService(cm, c, serviceName) ==
    LET name      == getServiceContainerName(cm.projectName, cm.session, serviceName)
        running   == isContainerRunning(c, name)
        exists    == containerExists(c, name)
        got       == getContainerID(c, name)
        restarted == ContainerStart(c, <<"ServiceStart", serviceName>>, got.val)
        image     == imageExists(c, ServiceImage(serviceName))
    IN
    CHOOSE result \in
     {CHOOSE result \in
       {CHOOSE result \in
         {IF running.err # NIL THEN [c |-> c, err |-> running.err]
          ELSE IF running.val THEN [c |-> c, err |-> NIL]
          ELSE IF exists.err # NIL THEN [c |-> c, err |-> exists.err]
          ELSE IF exists.val
               THEN IF got.err # NIL THEN [c |-> c, err |-> got.err] ELSE restarted
          ELSE IF image.err # NIL THEN [c |-> c, err |-> image.err]
          ELSE IF pulled.err # NIL THEN pulled
          ELSE IF created.err # NIL THEN [c |-> created.c, err |-> created.err]
          ELSE started
          : started \in {ContainerStart(created.c, <<"ServiceStart", serviceName>>,
                                        created.id)}} : TRUE
        : created \in {ContainerCreate(pulled.c, <<"ServiceCreate", serviceName>>,
                                       serviceSpec(cm, serviceName, name, FALSE))}} : TRUE
      : pulled \in {IF image.val THEN [c |-> c, err |-> NIL]
                    ELSE pullImage(c, ServiceImage(serviceName))}} : TRUE

RECURSIVE startServiceLoop(_, _, _)
startServiceLoop(cm, c, todo) ==
    IF todo = <<>> THEN [c |-> c, err |-> NIL]
    ELSE CHOOSE result \in
           {IF one.err # NIL THEN one ELSE startServiceLoop(cm, one.c, Tail(todo))
            : one \in {startService(cm, c, Head(todo))}} : TRUE

startAllServices(cm, c) ==
    LET net == ensureNetwork(cm, c)
    IN  IF cm.services = <<>> THEN [c |-> c, err |-> NIL]
        ELSE IF net.err # NIL THEN net
        ELSE startServiceLoop(cm, net.c, cm.services)

\* Client.Start
clientStart(cm, c) ==
    CHOOSE result \in
     {CHOOSE result \in
       {CHOOSE result \in
         {CHOOSE result \in
           {IF image.err # NIL THEN [c |-> image.c, err |-> image.err]
            ELSE IF net.err # NIL THEN [c |-> net.c, err |-> net.err]
            ELSE IF services.err # NIL THEN [c |-> services.c, err |-> services.err]
            ELSE [c |-> shell.c, err |-> shell.err]
            : shell \in {startContainer(cm, services.c)}} : TRUE
          : services \in {startAllServices(cm, net.c)}} : TRUE
        : net \in {ensureNetwork(cm, image.c)}} : TRUE
      : image \in {ensureImage(cm, c)}} : TRUE

(***************************************************************************)
(* The command line                                                        *)
(***************************************************************************)
\* a session resolution that lets ISO_SESSION win over --session
getSession_EnvWins(flagValue, envSession, token) ==
    IF envSession # <<>> THEN [name |-> envSession, ephemeral |-> FALSE]
    ELSE IF flagValue # <<>> THEN [name |-> flagValue, ephemeral |-> FALSE]
    ELSE [name |-> S_eph \o token, ephemeral |-> TRUE]

\* getSession: flag, then ISO_SESSION, then "eph-" and a random token
getSession(flagValue, envSession, token) ==
    IF flagValue # <<>> THEN [name |-> flagValue, ephemeral |-> FALSE]
    ELSE IF envSession # <<>> THEN [name |-> envSession, ephemeral |-> FALSE]
    ELSE [name |-> S_eph \o token, ephemeral |-> TRUE]

\* start, stop and reset require a session name
requiredSession(flagValue, envSession) ==
    IF flagValue # <<>> THEN flagValue ELSE envSession

\* a handler that returns the error of Stop when the cleanup fails
runHandler_StopErrorWins(cm, c, ephemeral, sup) ==
    CHOOSE result \in
     {CHOOSE result \in
       {CHOOSE result \in
         {LET outcome == IF ephemeral /\ stopped.err # NIL THEN [err |-> stopped.err]
                         ELSE IF ran.err # NIL THEN [err |-> ran.err]
                         ELSE IF ran.code # 0 THEN [err |-> "exit", code |-> ran.code]
                         ELSE [err |-> NIL]
          IN  [c |-> IF ephemeral THEN stopped.c ELSE ran.c,
               ran |-> ran, exit |-> mainExit(outcome),
               atEntry |-> {k \in swept.e.containers :
                               k.name = cm.containerName /\ k.running}]
          : stopped \in {stopContainer(cm, ran.c)}} : TRUE
        : ran \in {runCommand(cm, swept, sup)}} : TRUE
      : swept \in {cleanupStaleResources(cm, c)}} : TRUE

\* registerRunCommand handler, from the resolved session on
runHandler(cm, c, ephemeral, sup) ==
    CHOOSE result \in
     {CHOOSE result \in
       {LET outcome == IF ran.err # NIL THEN [err |-> ran.err]
                       ELSE IF ran.code # 0 THEN [err |-> "exit", code |-> ran.code]
                       ELSE [err |-> NIL]
        IN  [c |-> IF ephemeral THEN stopContainer(cm, ran.c).c ELSE ran.c,
             ran |-> ran, exit |-> mainExit(outcome),
             atEntry |-> {k \in swept.e.containers :
                             k.name = cm.containerName /\ k.running}]
        : ran \in {runCommand(cm, swept, sup)}} : TRUE
      : swept \in {cleanupStaleResources(cm, c)}} : TRUE

(***************************************************************************)
(* Inputs and bounds                                                       *)
(***************************************************************************)
MaxTokens == 1 \* session tokens rand.Read may yield
MaxFresh == 0  \* fresh service containers of earlier runs a command may find

SvcA    == <<"a">>
SvcB    == <<"b">>
P_a       == <<"/","a">>
P_b       == <<"/","b">>
RootP   == Path(TRUE, << <<"w">>, <<"p">> >>)
RootQ   == Path(TRUE, << <<"w">>, <<"q">> >>)
NoPeers == [present |-> FALSE, network |-> <<>>]

Config(root, git, services, vols, cache, cacheDir, peers) ==
    [root |-> root, git |-> git, services |-> services, volumes |-> vols,
     cache |-> cache, cacheDir |-> cacheDir, peers |-> peers]

\* a project without services
PlainConfig == Config(RootP, NoGit, {}, <<P_a>>, <<P_b>>, FALSE, NoPeers)

\* one whose volume path and cache path meet in one volume name
ClashConfig == Config(RootP, NoGit, {}, <<<<"/","c","a","c","h","e","/","a">>>>, <<P_a>>, FALSE, NoPeers)

\* (--session, ISO_SESSION) pairs of the invocations
SessionArgs == { <<<<>>, <<>>>>, <<<<>>, S_default>> }

\* orders in which a range over the services map may visit them
Orders(S) == {q \in [1..Cardinality(S) -> S] :
                 \A i, j \in 1..Cardinality(S) : i # j => q[i] # q[j]}

\* engine calls on the way to the command and through it
ForwardFaults ==
    {F(x) : x \in {"NetworkCreate", "ImagePull", "ImageBuild", "ImageInspect",
                   "VolumeCreate", "ContainerCreate", "ContainerStart",
                   "ExecCreate", "ExecAttach", "Output", "ExecInspect"}}
    \cup {<<x, s>> : x \in {"ServiceCreate", "ServiceStart"}, s \in {SvcA, SvcB}}

\* listing and teardown calls
OtherFaults ==
    {F(x) : x \in {"ContainerList", "NetworkList", "VolumeInspect", "VolumeList",
                   "ContainerStop", "ContainerRemove", "NetworkRemove",
                   "VolumeRemove", "ImageRemove"}}
    \cup {<<"ContainerList", <<"stop">>>>}

\* what the container holds for the supervisor
Sup(ready, pre, main, post) == [ready |-> ready, pre |-> pre, main |-> main, post |-> post]
SupOk == Sup(TRUE, Absent, 0, Absent)

\* one invocation of run: the engine calls that fail, and the supervisor's world
RunInputs ==
    {<<{}, sup>> : sup \in ({ SupOk, Sup(TRUE, 0, 7, 5), Sup(TRUE, Absent, 255, 0) })}
    \cup {<<{F(x)}, SupOk>> : x \in {"ImageBuild", "ContainerCreate"}}
    \cup {<<{F("VolumeRemove")}, Sup(TRUE, 0, 7, 5)>>}

SvcRunInputs ==
    {<<{}, SupOk>>, <<{}, Sup(FALSE, Absent, 0, Absent)>>}
    \cup {<<{<<"ServiceCreate", s>>}, SupOk>> : s \in cfg.services}

(***************************************************************************)
(* State machine                                                           *)
(***************************************************************************)
CurrentEngine == Engine(containers, networks, volumes, images)

Install(e) ==
    /\ containers' = e.containers
    /\ networks' = e.networks
    /\ volumes' = e.volumes
    /\ images' = e.images

NotRun == -3        \* the wrapped command was not started

NoRun == [code |-> 0, execId |-> NoId, atEntry |-> NoId, freshLeft |-> {},
          user |-> NotRun, post |-> Absent, again |-> FALSE]

\* ids the last outcome names
Known == {last.run.execId, last.run.atEntry} \cup last.run.freshLeft

Outcome(op, session, ephemeral, err, exit, c, run) ==
    [op |-> op, session |-> session, ephemeral |-> ephemeral, err |-> err,
     exit |-> exit, log |-> c.log, forward |-> c.f \cap ForwardFaults = {},
     clean |-> c.f \cap OtherFaults = {}, run |-> run]

NoOutcome ==
    [op |-> "none", session |-> <<>>, ephemeral |-> FALSE, err |-> NIL, exit |-> 0,
     log |-> <<>>, forward |-> TRUE, clean |-> TRUE, run |-> NoRun]

\* an invocation that is in no ensure operation
Idle == [pc |-> "idle", op |-> "none", todo |-> <<>>, saw |-> {}, err |-> NIL]
Invocations == {1, 2}
IdleProcs == [p \in Invocations |-> Idle]

\* the invoking machine at rest: the checkout directories exist, no
\* supervisor runs, and the terminal is in the mode the user left it in
HostIdle ==
    /\ disk = [dirs |-> {Dir(RootP), RootP, RootQ}, files |-> {}]
    /\ sv = [pc |-> "idle"]
    /\ tty = [pc |-> "idle", mode |-> "cooked"]

Init ==
    /\ containers = {}
    /\ networks = {}
    /\ volumes = {}
    /\ images = {}
    /\ cfg \in {PlainConfig, ClashConfig}
    /\ last = NoOutcome
    /\ nm = [phase |-> "idle"]
    /\ procs = IdleProcs
    /\ HostIdle

\* rand.Read in getSession: a token of no session that left anything behind
TokenFree(token) ==
    LET cm == Manager(cfg, S_eph \o token, <<>>)
    IN  /\ \A k \in containers : k.session # cm.session
        /\ cm.networkName \notin networks
        /\ \A i \in 1..Len(cm.volumes) : sessionVolumeNames(cm)[i] \notin volumes

\* the token rand.Read yields: one no live resource bears
Token ==
    Digit(CHOOSE i \in 1..MaxTokens :
            TokenFree(Digit(i)) /\ \A j \in 1..(i - 1) : ~TokenFree(Digit(j)))

\* a generated session is new: the command can run when a token is left
HasToken(args) == (args[1] = <<>> /\ args[2] = <<>>) => \E i \in 1..MaxTokens : TokenFree(Digit(i))

\* iso run
Run(args, order, faults, sup) ==
    /\ Cardinality({k \in containers : k.fresh}) <= MaxFresh
    /\ HasToken(args)
    /\ \E sess \in {getSession(args[1], args[2], Token)} :
       \E cm \in {Manager(cfg, sess.name, order)} :
       \E r \in {runHandler(cm, Ctx(CurrentEngine, faults, Known), sess.ephemeral, sup)} :
           /\ Install(r.c.e)
           /\ last' = Outcome("run", cm.session, sess.ephemeral, r.ran.err, r.exit, r.c,
                              [code |-> r.ran.code, execId |-> r.ran.execId,
                               atEntry |-> IF r.atEntry = {} THEN NoId
                                           ELSE (CHOOSE k \in r.atEntry : TRUE).id,
                               freshLeft |-> r.ran.freshLeft,
                               user |-> IF \E i \in 1..Len(r.ran.steps) :
                                              r.ran.steps[i] = "main"
                                        THEN sup.main ELSE NotRun,
                               post |-> sup.post,
                               again |-> /\ last.op = "run" /\ last.err = NIL
                                         /\ ~sess.ephemeral
                                         /\ last.session = cm.session])
    /\ UNCHANGED <<cfg, nm, procs, disk, sv, tty>>

\* iso start, iso stop, iso reset: the session is required
Invoke(op, args, order, faults) ==
    /\ requiredSession(args[1], args[2]) # <<>>
    /\ op = "start" => Cardinality({k \in containers : k.fresh}) <= MaxFresh
    /\ \E cm \in {Manager(cfg, requiredSession(args[1], args[2]), order)} :
       \E c \in {cleanupStaleResources(cm, Ctx(CurrentEngine, faults, Known))} :
       \E r \in {CASE op = "start" -> clientStart(cm, c)
                   [] op = "stop"  -> stopContainer(cm, c)
                   [] op = "reset" -> resetContainer(cm, c)} :
           /\ Install(r.c.e)
           /\ last' = Outcome(op, cm.session, FALSE, r.err,
                              mainExit([err |-> r.err]), r.c, NoRun)
    /\ UNCHANGED <<cfg, nm, procs, disk, sv, tty>>

Start(args, order, faults) == Invoke("start", args, order, faults)
Stop(args, order, faults) == Invoke("stop", args, order, faults)
Reset(args, order, faults) == Invoke("reset", args, order, faults)

\* iso build (without --rebuild) resolves the session as run does
Build(args, faults) ==
    /\ HasToken(args)
    /\ \E sess \in {getSession(args[1], args[2], Token)} :
       \E cm \in {Manager(cfg, sess.name, <<>>)} :
       \E r \in {ensureImage(cm, cleanupStaleResources(cm,
                                      Ctx(CurrentEngine, faults, Known)))} :
           /\ Install(r.c.e)
           /\ last' = Outcome("build", cm.session, sess.ephemeral, r.err,
                              mainExit([err |-> r.err]), r.c, NoRun)
    /\ UNCHANGED <<cfg, nm, procs, disk, sv, tty>>

\* iso prune always takes a generated session
Prune(faults) ==
    /\ HasToken(<<<<>>, <<>>>>)
    /\ \E sess \in {getSession(<<>>, <<>>, Token)} :
       \E cm \in {Manager(cfg, sess.name, <<>>)} :
       \E r \in {pruneCacheVolumes(cm, cleanupStaleResources(cm,
                                            Ctx(CurrentEngine, faults, Known)))} :
           /\ Install(r.c.e)
           /\ last' = Outcome("prune", cm.session, sess.ephemeral, r.err,
                              mainExit([err |-> r.err]), r.c, NoRun)
    /\ UNCHANGED <<cfg, nm, procs, disk, sv, tty>>

DefaultArgs == <<<<>>, S_default>>

Next ==
    \/ \E args \in SessionArgs, in \in RunInputs : Run(args, <<>>, in[1], in[2])
    \/ \E faults \in ({{}} \cup {{F(x)} : x \in {"ContainerStart"}}) : Start(DefaultArgs, <<>>, faults)
    \/ \E faults \in ({{}} \cup {{F(x)} : x \in {"ContainerStop", "VolumeRemove"}}) : Stop(DefaultArgs, <<>>, faults)
    \/ \E faults \in ({{}} \cup {{F(x)} : x \in {"ContainerStop"}}) : Reset(DefaultArgs, <<>>, faults)
    \/ \E args \in SessionArgs, faults \in ({{}} \cup {{F(x)} : x \in {"ImageBuild"}}) : Build(args, faults)
    \/ \E faults \in ({{}} \cup {{F(x)} : x \in {"VolumeRemove"}}) : Prune(faults)

Spec == Init /\ [][Next]_vars

(***************************************************************************)
(* Properties of the lifecycle                                             *)
(***************************************************************************)
\* s contains sub
Contains(s, sub) ==
    \E i \in 0..(Len(s) - Len(sub)) : SubSeq(s, i + 1, i + Len(sub)) = sub

\* the manager of the session the last command worked on
LastManager == Manager(cfg, last.session, <<>>)

\* C1: when a run on a generated session has returned, and every listing
\* and removal the engine was asked for worked, the engine holds no
\* container, network or volume whose name carries the session id
C1_EphemeralLeavesNothing ==
    (last.op = "run" /\ last.ephemeral /\ last.clean) =>
        /\ \A k \in containers : ~Contains(k.name, last.session)
        /\ \A n \in networks : ~Contains(n, last.session)
        /\ \A v \in volumes : ~Contains(v, last.session)

\* C2: when the wrapped command ran (services ready, pre-run hook absent or
\* 0) runCommand returns its exit code with a nil error and the process
\* exits with that code, whatever post-run.sh and the cleanup of a generated
\* session did
C2_ExitMirrored ==
    (last.op = "run" /\ last.run.user # NotRun /\ last.forward) =>
        /\ last.err = NIL
        /\ last.run.code = last.run.user
        /\ last.exit = last.run.user

\* a command that exits 7 with a post-run hook that exits 5, in a generated
\* session whose volumes could not be removed afterwards
C2_Witness ==
    /\ last.op = "run" /\ last.ephemeral /\ ~last.clean
    /\ last.run.user = 7 /\ last.run.post = 5
    /\ \E v \in volumes : Contains(v, last.session)
    /\ last.exit = 7

\* the log has no image build and no create or start of the named container
NoShellSetup(log, containerName) ==
    \A i \in 1..Len(log) :
        /\ log[i][1] # "ImageBuild"
        /\ log[i][1] \in {"ContainerCreate", "ContainerStart"} => log[i][2] # containerName

\* C3: a run that directly follows a successful run on the same persistent
\* session and finds the shell container running execs in the container of
\* the first run, and builds no image and creates or starts no shell container
C3_PersistentReuse ==
    [][ (/\ last.op = "run" /\ ~last.ephemeral /\ last.err = NIL
         /\ last'.op = "run" /\ last'.session = last.session
         /\ last'.run.atEntry # NoId)
        => /\ last'.run.execId = last.run.execId
           /\ NoShellSetup(last'.log, Manager(cfg, last.session, <<>>).containerName) ]_vars

\* the second of two runs on a persistent session has found the shell
\* container running and has exec'd in it
C3_Witness ==
    /\ last.op = "run" /\ last.run.again /\ last.err = NIL
    /\ last.run.atEntry # NoId
    /\ last.run.execId = last.run.atEntry

\* C7: when Stop has returned without error, and every listing and removal
\* it asked for worked, the session's network and its session volumes (those
\* that are not a cache volume as well) are gone
C7_StopRemovesSessionResources ==
    (last.op = "stop" /\ last.err = NIL /\ last.clean) =>
        /\ LastManager.networkName \notin networks
        /\ \A i \in 1..Len(LastManager.volumes) :
               \/ sessionVolumeNames(LastManager)[i] \notin volumes
               \/ sessionVolumeNames(LastManager)[i] \in Range(cacheVolumeNames(LastManager))

\* C8: a step that removes the cache volume of a configured cache path is a
\* step of prune
C8_OnlyPruneRemovesCache ==
    [][ (\E i \in 1..Len(cfg.cache) :
            /\ cacheVolumeNames(LastManager)[i] \in volumes
            /\ cacheVolumeNames(LastManager)[i] \notin volumes')
        => last'.op = "prune" ]_vars

\* C22: for a project that declares no services, the network of the session
\* the last command worked on does not exist, whatever run, start, stop and
\* reset commands came before
C22_NetworkOnlyWithServices ==
    cfg.services = {} => LastManager.networkName \notin networks

(***************************************************************************)
(* The lifecycle of a project with services                                *)
(***************************************************************************)
SvcInit ==
    /\ containers = {}
    /\ networks = {}
    /\ volumes = {}
    /\ images = {}
    /\ cfg = Config(RootP, NoGit, {SvcA, SvcB}, <<>>, <<>>, FALSE, NoPeers)  \* a project with two services
    /\ last = NoOutcome
    /\ nm = [phase |-> "idle"]
    /\ procs = IdleProcs
    /\ HostIdle

SvcNext ==
    \/ \E args \in SessionArgs, order \in Orders(cfg.services), in \in SvcRunInputs :
           Run(args, order, in[1], in[2])
    \/ \E order \in Orders(cfg.services) : Start(DefaultArgs, order, {})
    \/ Stop(DefaultArgs, <<>>, {})

SvcSpec == SvcInit /\ [][SvcNext]_vars

\* C6: when runCommand returns, no fresh service container it started is
\* left
C6_FreshServicesStopped ==
    last.op = "run" => last.run.freshLeft = {}

(***************************************************************************)
(* The ensure operations, one call at a time                               *)
(***************************************************************************)

\* a project with a peers file
PeersConfig == Config(RootP, NoGit, {}, <<P_a>>, <<P_b>>, FALSE, [present |-> TRUE, network |-> <<>>])

EnsureOps == {"ensureImage", "ensureNetwork", "ensurePeersNetwork", "ensureVolumes"}

EnsureInit ==
    /\ containers = {}
    /\ networks = {}
    /\ volumes = {}
    /\ images = {}
    /\ cfg \in {PeersConfig, ClashConfig}
    /\ last = NoOutcome
    /\ nm = [phase |-> "idle"]
    /\ procs = IdleProcs
    /\ HostIdle

\* the engine and the outcome after one call of an ensure operation
Ensured(op, cm, r) ==
    /\ Install(r.c.e)
    /\ last' = Outcome(op, cm.session, FALSE, r.err, mainExit([err |-> r.err]), r.c,
                       [NoRun EXCEPT !.again = /\ last.op = op /\ last.err = NIL
                                               /\ last.session = cm.session])
    /\ UNCHANGED <<cfg, nm, procs, disk, sv, tty>>

EnsureImage(session, faults) ==
    LET cm == Manager(cfg, session, <<>>)
    IN  Ensured("ensureImage", cm, ensureImage(cm, Ctx(CurrentEngine, faults, {})))

EnsureNetwork(session, faults) ==
    LET cm == Manager(cfg, session, <<>>)
    IN  Ensured("ensureNetwork", cm, ensureNetwork(cm, Ctx(CurrentEngine, faults, {})))

\* startAllPeers calls it only when peers are configured
EnsurePeersNetwork(session, faults) ==
    /\ cfg.peers.present
    /\ LET cm == Manager(cfg, session, <<>>)
       IN  Ensured("ensurePeersNetwork", cm,
                   ensurePeersNetwork(cm, Ctx(CurrentEngine, faults, {})))

EnsureVolumes(session, faults) ==
    LET cm == Manager(cfg, session, <<>>)
    IN  Ensured("ensureVolumes", cm, ensureVolumes(cm, Ctx(CurrentEngine, faults, {})))

EnsureNext ==
    \E session \in ({S_default, <<"s">>}), faults \in ({{}} \cup {{F(x)} : x \in {"ImageBuild", "NetworkCreate", "VolumeCreate"}}) :
        \/ EnsureImage(session, faults)
        \/ EnsureNetwork(session, faults)
        \/ EnsurePeersNetwork(session, faults)
        \/ EnsureVolumes(session, faults)

EnsureSpec == EnsureInit /\ [][EnsureNext]_vars

\* no engine call is in the log twice
NoRepeat(log) == \A i, j \in 1..Len(log) : log[i] = log[j] => i = j

\* C4: an ensure call the engine does not fail reports success and asks for
\* each resource at most once; when it directly follows a successful call of
\* the same operation on the same session it issues no mutating engine call
\* and leaves the engine as it was
C4_EnsureIdempotent ==
    [][ (last'.op \in EnsureOps /\ last'.forward /\ last'.clean)
        => /\ last'.err = NIL
           /\ NoRepeat(last'.log)
           /\ (last.op = last'.op /\ last.session = last'.session /\ last.err = NIL)
              => /\ last'.log = <<>>
                 /\ UNCHANGED <<containers, networks, volumes, images>> ]_vars

\* the second of two ensureVolumes calls has returned; the first had found
\* the volumes and left them
C4_Witness ==
    /\ last.op = "ensureVolumes" /\ last.run.again
    /\ last.err = NIL /\ last.log = <<>>
    /\ Range(sessionVolumeNames(LastManager)) \subseteq volumes
    /\ volumes # {}

(***************************************************************************)
(* Project, session and path names                                         *)
(***************************************************************************)
RelDotGit   == Path(FALSE, <<S_dotgit>>)
GitDirOfP   == Path(TRUE, << <<"w">>, <<"p">>, S_dotgit >>)

\* a checkout: its root, and what git says there
Checkouts ==
    { <<RootP, Git(RelDotGit, RelDotGit)>>,
      <<RootQ, Git(GitDirOfP, Path(TRUE, GitDirOfP.segs \o <<<<"w","o","r","k","t","r","e","e","s">>, <<"q">> >>))>>,
      <<(Path(TRUE, << <<"w">>, <<"r">> >>)), Git(Path(FALSE, <<<<".",".">>, <<"p">>, S_dotgit>>),
                   Path(TRUE, GitDirOfP.segs \o <<<<"w","o","r","k","t","r","e","e","s">>, <<"r">> >>))>>,
      <<RootQ, NoGit>> }

NamesInit ==
    /\ containers = {}
    /\ networks = {}
    /\ volumes = {}
    /\ images = {}
    /\ cfg = PlainConfig
    /\ last = NoOutcome
    /\ nm = [phase |-> "idle"]
    /\ procs = IdleProcs
    /\ HostIdle

\* two managers are constructed, each for a checkout, a session and a path
\* configured both as volume and as cache
Name(k1, s1, p1, k2, s2, p2) ==
    /\ nm.phase = "idle"
    /\ LET cm1 == Manager(Config(k1[1], k1[2], {}, <<p1>>, <<p1>>, FALSE, NoPeers), s1, <<>>)
           cm2 == Manager(Config(k2[1], k2[2], {}, <<p2>>, <<p2>>, FALSE, NoPeers), s2, <<>>)
       IN  nm' = [phase |-> "named",
                  base1 |-> cm1.baseProjectName, worktree1 |-> cm1.worktreeProjectName,
                  base2 |-> cm2.baseProjectName, worktree2 |-> cm2.worktreeProjectName,
                  s1 |-> cm1.session, p1 |-> p1, s2 |-> cm2.session, p2 |-> p2,
                  v1 |-> sessionVolumeNames(cm1)[1], v2 |-> sessionVolumeNames(cm2)[1],
                  c1 |-> cacheVolumeNames(cm1)[1], c2 |-> cacheVolumeNames(cm2)[1]]
    /\ UNCHANGED <<containers, networks, volumes, images, cfg, last, procs, disk, sv, tty>>

\* the managers are dropped
Forget ==
    /\ nm.phase # "idle"
    /\ nm' = [phase |-> "idle"]
    /\ UNCHANGED <<containers, networks, volumes, images, cfg, last, procs, disk, sv, tty>>

NamesNext ==
    \/ \E k1, k2 \in Checkouts, s1, s2 \in ({S_default, <<"s">>, <<"t">>}), p1, p2 \in ({P_a, <<"/","s","/","a">>, P_b}) :
           Name(k1, s1, p1, k2, s2, p2)
    \/ Forget

NamesSpec == NamesInit /\ [][NamesNext]_vars

\* C9: in one worktree, a session volume name that two (session, path)
\* pairs share is the name of one session
C9_SessionVolumesApart ==
    (nm.phase = "named" /\ nm.worktree1 = nm.worktree2 /\ nm.v1 = nm.v2) => nm.s1 = nm.s2

\* C10: two worktrees of one base project have the same cache volume name
\* for a cache path, and different session volume names for a session and path
C10_CacheSharedSessionsApart ==
    (nm.phase = "named" /\ nm.base1 = nm.base2 /\ nm.worktree1 # nm.worktree2) =>
        /\ nm.p1 = nm.p2 => nm.c1 = nm.c2
        /\ (nm.s1 = nm.s2 /\ nm.p1 = nm.p2) => nm.v1 # nm.v2

\* two worktrees of one repository, named for the same session and path
C10_Witness ==
    /\ nm.phase = "named"
    /\ nm.base1 = nm.base2 /\ nm.worktree1 # nm.worktree2
    /\ nm.s1 = nm.s2 /\ nm.p1 = nm.p2
    /\ nm.c1 = nm.c2 /\ nm.v1 # nm.v2

(***************************************************************************)
(* Two invocations in the ensure operations at once: each check and each   *)
(* create is a step of its own, as the engine sees them                    *)
(***************************************************************************)
RaceInit ==
    /\ containers = {}
    /\ networks = {}
    /\ volumes = {}
    /\ images = {}
    /\ cfg = PeersConfig
    /\ last = NoOutcome
    /\ nm = [phase |-> "idle"]
    /\ procs = IdleProcs
    /\ HostIdle

\* the resources an ensure operation checks, in its order
Resources(op, cm) ==
    CASE op = "ensureNetwork"      -> << <<"network", cm.networkName>> >>
      [] op = "ensurePeersNetwork" -> << <<"network", cm.peersNetworkName>> >>
      [] op = "ensureVolumes"      ->
            [i \in 1..Len(cm.volumes) |-> <<"volume", sessionVolumeNames(cm)[i]>>]
            \o (IF cm.cacheDir THEN <<>>
                ELSE [i \in 1..Len(cm.cache) |-> <<"volume", cacheVolumeNames(cm)[i]>>])

\* the invocation enters the operation
Call(p, op, session) ==
    /\ procs[p].pc = "idle"
    /\ op = "ensurePeersNetwork" => cfg.peers.present
    /\ procs' = [procs EXCEPT ![p] =
                    [pc |-> "check", op |-> op,
                     todo |-> Resources(op, Manager(cfg, session, <<>>)),
                     saw |-> {}, err |-> NIL]]
    /\ UNCHANGED <<containers, networks, volumes, images, cfg, last, nm, disk, sv, tty>>

\* the invocation after it is through with the head of todo
Advanced(proc) ==
    IF Tail(proc.todo) = <<>> THEN [proc EXCEPT !.pc = "done", !.todo = <<>>]
    ELSE [proc EXCEPT !.pc = "check", !.todo = Tail(@)]

\* networkExists or volumeExists of the next resource
Check(p) ==
    /\ procs[p].pc = "check"
    /\ LET item   == Head(procs[p].todo)
           c      == Ctx(CurrentEngine, {}, {})
           exists == IF item[1] = "network" THEN networkExists(c, item[2])
                     ELSE volumeExists(c, item[2])
       IN  procs' = [procs EXCEPT ![p] =
                        IF exists.val THEN Advanced(@)
                        ELSE [@ EXCEPT !.pc = "create", !.saw = @ \cup {item[2]}]]
    /\ UNCHANGED <<containers, networks, volumes, images, cfg, last, nm, disk, sv, tty>>

\* createNetwork or createVolume of the resource found absent
Create(p) ==
    /\ procs[p].pc = "create"
    /\ LET item == Head(procs[p].todo)
           c    == Ctx(CurrentEngine, {}, {})
           made == IF item[1] = "network" THEN createNetwork(c, item[2])
                   ELSE createVolume(c, item[2])
       IN  /\ Install(made.c.e)
           /\ procs' = [procs EXCEPT ![p] =
                           IF made.err # NIL
                           THEN [@ EXCEPT !.pc = "done", !.err = made.err]
                           ELSE Advanced(@)]
    /\ UNCHANGED <<cfg, last, nm, disk, sv, tty>>

\* the operation has returned and the invocation goes on
Return(p) ==
    /\ procs[p].pc = "done"
    /\ procs' = [procs EXCEPT ![p] = Idle]
    /\ UNCHANGED <<containers, networks, volumes, images, cfg, last, nm, disk, sv, tty>>

RaceNext ==
    \E p \in Invocations :
        \/ \E op \in EnsureOps \ {"ensureImage"}, session \in ({S_default, <<"s">>}) :
               Call(p, op, session)
        \/ Check(p)
        \/ Create(p)
        \/ Return(p)

RaceSpec == RaceInit /\ [][RaceNext]_vars

\* C5: when two invocations have returned from the same ensure operation
\* and both had found a resource absent, both report success and the
\* resource exists
C5_ConcurrentEnsureSucceeds ==
    \A p, q \in Invocations :
        (/\ p # q
         /\ procs[p].pc = "done" /\ procs[q].pc = "done"
         /\ procs[p].op = procs[q].op
         /\ procs[p].saw \cap procs[q].saw # {})
        => /\ procs[p].err = NIL /\ procs[q].err = NIL
           /\ procs[p].saw \cap procs[q].saw \subseteq networks \cup volumes

(***************************************************************************)
(* Orphaned sessions (iso.go): containers whose project directory is gone  *)
(***************************************************************************)
\* os.Stat on the host: ENOTDIR when a component of the path is a regular
\* file, ENOENT when the path names nothing
osStat(d, p) ==
    LET ancestors == {Path(p.abs, SubSeq(p.segs, 1, n)) : n \in 0..(Len(p.segs) - 1)}
    IN  IF ancestors \cap d.files # {} THEN "ENOTDIR"
        ELSE IF p \in d.dirs \cup d.files THEN NIL
        ELSE "ENOENT"

\* dockerClient.listIsoContainers: every container labelled iso.managed, in
\* the engine's listing order
listIsoContainers(c) ==
    IF Fails(c, "ContainerList") THEN [err |-> ErrEngine, val |-> <<>>]
    ELSE [err |-> NIL, val |-> SetToSeq(c.e.containers)]

\* the containers of one (project directory, session) key, in listing order
RECURSIVE SelectIn(_, _, _)
SelectIn(q, dir, session) ==
    IF q = <<>> THEN <<>>
    ELSE IF Head(q).dir = dir /\ Head(q).session = session
         THEN <<Head(q)>> \o SelectIn(Tail(q), dir, session)
    ELSE SelectIn(Tail(q), dir, session)

\* ListOrphaned: group the containers by (project directory, session) and
\* report the groups for whose directory os.IsNotExist(err) holds
ListOrphaned(c, d) ==
    CHOOSE result \in
      {IF listed.err # NIL THEN [err |-> listed.err, val |-> <<>>]
       ELSE [err |-> NIL,
             val |-> SetToSeq(
                 {[dir |-> key[1], session |-> key[2],
                   project |-> SelectIn(listed.val, key[1], key[2])[1].project,
                   containers |-> SelectIn(listed.val, key[1], key[2])]
                  : key \in {<<k.dir, k.session>> :
                               k \in {x \in Range(listed.val) : osStat(d, x.dir) = "ENOENT"}}})]
       : listed \in {listIsoContainers(c)}} : TRUE

\* a cleanup that stops the containers of a session and leaves them in place
RECURSIVE removeSession_StopsOnly(_, _)
removeSession_StopsOnly(c, ks) ==
    IF ks = <<>> THEN [c |-> c, n |-> 0]
    ELSE CHOOSE result \in
           {[c |-> rest.c, n |-> rest.n + 1]
            : rest \in {removeSession_StopsOnly(ContainerStop(c, Head(ks).id).c,
                                                Tail(ks))}} : TRUE

\* the inner loop of the cleanup: stop and remove each container of a
\* session, errors logged only, and count it
RECURSIVE removeSession(_, _)
removeSession(c, ks) ==
    IF ks = <<>> THEN [c |-> c, n |-> 0]
    ELSE CHOOSE result \in
           {[c |-> rest.c, n |-> rest.n + 1]
            : rest \in {removeSession(
                          ContainerRemove(ContainerStop(c, Head(ks).id).c, Head(ks).id).c,
                          Tail(ks))}} : TRUE

\* a loop whose dry run counts the sessions, not their containers
RECURSIVE cleanupLoop_CountsSessions(_, _, _)
cleanupLoop_CountsSessions(c, sessions, dryRun) ==
    IF sessions = <<>> THEN [c |-> c, n |-> 0, nets |-> {}]
    ELSE CHOOSE result \in
           {CHOOSE result \in
              {[c |-> rest.c, n |-> gone.n + rest.n,
                nets |-> rest.nets \cup
                         (IF dryRun THEN {}
                          ELSE {getNetworkName(Head(sessions).project, Head(sessions).session)})]
               : rest \in {cleanupLoop_CountsSessions(gone.c, Tail(sessions), dryRun)}} : TRUE
            : gone \in {IF dryRun THEN [c |-> c, n |-> 1]
                        ELSE removeSession(c, Head(sessions).containers)}} : TRUE

\* the loop over the sessions: a dry run counts the containers, a
\* destructive run removes them and notes the session's network
RECURSIVE cleanupLoop(_, _, _)
cleanupLoop(c, sessions, dryRun) ==
    IF sessions = <<>> THEN [c |-> c, n |-> 0, nets |-> {}]
    ELSE CHOOSE result \in
           {CHOOSE result \in
              {[c |-> rest.c, n |-> gone.n + rest.n,
                nets |-> rest.nets \cup
                         (IF dryRun THEN {}
                          ELSE {getNetworkName(Head(sessions).project, Head(sessions).session)})]
               : rest \in {cleanupLoop(gone.c, Tail(sessions), dryRun)}} : TRUE
            : gone \in {IF dryRun THEN [c |-> c, n |-> Len(Head(sessions).containers)]
                        ELSE removeSession(c, Head(sessions).containers)}} : TRUE

\* a loop that removes the network of each session as soon as the
\* containers of that session are through
RECURSIVE cleanupEach(_, _)
cleanupEach(c, sessions) ==
    IF sessions = <<>> THEN [c |-> c, n |-> 0]
    ELSE CHOOSE result \in
           {CHOOSE result \in
              {[c |-> rest.c, n |-> gone.n + rest.n]
               : rest \in {cleanupEach(
                              removeNetwork(gone.c,
                                            getNetworkName(Head(sessions).project,
                                                           Head(sessions).session)).c,
                              Tail(sessions))}} : TRUE
            : gone \in {removeSession(c, Head(sessions).containers)}} : TRUE

CleanupOrphanedSessions_NetworkPerSession(c, sessions, dryRun) ==
    IF dryRun THEN [c |-> c, n |-> cleanupLoop(c, sessions, TRUE).n, err |-> NIL]
    ELSE [c |-> cleanupEach(c, sessions).c, n |-> cleanupEach(c, sessions).n, err |-> NIL]

\* CleanupOrphanedSessions: the loop, then the networks it noted
CleanupOrphanedSessions(c, sessions, dryRun) ==
    CHOOSE result \in
      {[c |-> removeNetworks(done.c, SetToSeq(done.nets)), n |-> done.n, err |-> NIL]
       : done \in {cleanupLoop(c, sessions, dryRun)}} : TRUE

\* CleanupOrphaned: the same loop over what ListOrphaned reports
CleanupOrphaned(c, d, dryRun) ==
    CHOOSE result \in
      {IF orphaned.err # NIL THEN [c |-> c, n |-> 0, err |-> orphaned.err]
       ELSE CleanupOrphanedSessions(c, orphaned.val, dryRun)
       : orphaned \in {ListOrphaned(c, d)}} : TRUE

\* a project with one service
ServiceConfig == Config(RootP, NoGit, {SvcA}, <<P_a>>, <<>>, FALSE, NoPeers)

OrphanInit ==
    /\ containers = {}
    /\ networks = {}
    /\ volumes = {}
    /\ images = {}
    /\ cfg = ServiceConfig
    /\ last = NoOutcome
    /\ nm = [phase |-> "idle"]
    /\ procs = IdleProcs
    /\ HostIdle

\* cd: the invocations that follow run in another checkout
Enter(root) ==
    /\ root # cfg.root
    /\ osStat(disk, root) = NIL
    /\ cfg' = [cfg EXCEPT !.root = root]
    /\ UNCHANGED <<containers, networks, volumes, images, last, nm, procs, disk, sv, tty>>

\* rm -r
RemoveAll(p) ==
    /\ p \in disk.dirs \cup disk.files
    /\ LET under(x) == Len(x.segs) >= Len(p.segs) /\ SubSeq(x.segs, 1, Len(p.segs)) = p.segs
       IN  disk' = [dirs  |-> {x \in disk.dirs : ~under(x)},
                    files |-> {x \in disk.files : ~under(x)}]
    /\ UNCHANGED <<containers, networks, volumes, images, cfg, last, nm, procs, sv, tty>>

\* mkdir, or the creation of a regular file, in an existing directory
Make(p, isDir) ==
    /\ osStat(disk, p) = "ENOENT"
    /\ Len(p.segs) > 1 => Dir(p) \in disk.dirs
    /\ disk' = IF isDir THEN [disk EXCEPT !.dirs = @ \cup {p}]
               ELSE [disk EXCEPT !.files = @ \cup {p}]
    /\ UNCHANGED <<containers, networks, volumes, images, cfg, last, nm, procs, sv, tty>>

\* what an orphan operation leaves: the sessions it was given or found,
\* and the engine and the disk it started from
OrphanOutcome(op, dryRun, r, sessions, c) ==
    [Outcome(op, <<>>, FALSE, r.err, 0, c, NoRun) EXCEPT !.session = Range(sessions)]
    @@ [dryRun |-> dryRun, n |-> r.n]

\* a caller lists the orphaned sessions
Scan(faults) ==
    /\ \E r \in {ListOrphaned(Ctx(CurrentEngine, faults, {}), disk)} :
           last' = OrphanOutcome("orphans", TRUE, [err |-> r.err, n |-> 0], r.val,
                                 Ctx(CurrentEngine, faults, {}))
    /\ UNCHANGED <<containers, networks, volumes, images, cfg, nm, procs, disk, sv, tty>>

\* a caller cleans up all orphaned sessions
Cleanup(dryRun, faults) ==
    /\ \E c \in {Ctx(CurrentEngine, faults, {})} :
       \E found \in {ListOrphaned(c, disk)} :
       \E r \in {CleanupOrphaned(c, disk, dryRun)} :
           /\ Install(r.c.e)
           /\ last' = OrphanOutcome("cleanup", dryRun, r, found.val, r.c)
    /\ UNCHANGED <<cfg, nm, procs, disk, sv, tty>>

\* a caller cleans up some of the sessions the scan before reported
CleanupSome(sessions, dryRun, faults) ==
    /\ last.op = "orphans"
    /\ Range(sessions) \subseteq last.session
    /\ \E r \in {CleanupOrphanedSessions(Ctx(CurrentEngine, faults, {}), sessions, dryRun)} :
           /\ Install(r.c.e)
           /\ last' = OrphanOutcome("cleanup", dryRun, r, sessions, r.c)
    /\ UNCHANGED <<cfg, nm, procs, disk, sv, tty>>

OrphanNext ==
    \/ \E root \in {RootP, RootQ} : Enter(root)
    \/ \E args \in {DefaultArgs, <<<<"s">>, <<>>>>}, order \in Orders(cfg.services) :
           osStat(disk, cfg.root) = NIL /\ Start(args, order, {})
    \/ \E p \in {Dir(RootP), RootP, RootQ} : RemoveAll(p)
    \/ \E p \in {Dir(RootP), RootP, RootQ} : Make(p, TRUE)
    \/ Make(Dir(RootP), FALSE)
    \/ \E faults \in {{}, {F("ContainerList")}} : Scan(faults)
    \/ \E dryRun \in BOOLEAN, faults \in {{}, {F("ContainerStop")}, {F("ContainerList")}} :
           Cleanup(dryRun, faults)
    \/ /\ last.op = "orphans"
       /\ \E dryRun \in BOOLEAN, sessions \in {SetToSeq(S) : S \in SUBSET last.session} :
              CleanupSome(sessions, dryRun, {})

OrphanSpec == OrphanInit /\ [][OrphanNext]_vars

\* C11: a scan reports exactly the (project directory, session) groups whose
\* directory does not exist on disk, each with all the containers of the group
C11_OrphansAreDeletedDirs ==
    [][(last'.op = "orphans" /\ last' # last /\ last'.err = NIL) =>
          /\ \A k \in containers :
                (k.dir \notin disk.dirs \cup disk.files)
                <=> \E g \in last'.session : g.dir = k.dir /\ g.session = k.session
          /\ \A g \in last'.session :
                Range(g.containers) =
                    {k \in containers : k.dir = g.dir /\ k.session = g.session}]_vars

Mutating(log) ==
    {i \in 1..Len(log) :
        log[i][1] \in {"ContainerStop", "ContainerRemove", "NetworkRemove"}}

\* C13: in any state, a dry run of either cleanup issues no stop, remove or
\* network removal, leaves the engine as it is, and returns the number of
\* containers in the orphaned groups, which is what the destructive run
\* returns from that state
C13_DryRunCountsOnly ==
    \A faults \in {{}, {F("ContainerRemove")}, {F("ContainerList")}} :
    \A c \in {Ctx(CurrentEngine, faults, {})} :
    \A found \in {ListOrphaned(c, disk)} :
    \A dry \in {CleanupOrphaned(c, disk, TRUE), CleanupOrphanedSessions(c, found.val, TRUE)} :
    \A real \in {CleanupOrphaned(c, disk, FALSE), CleanupOrphanedSessions(c, found.val, FALSE)} :
        /\ dry.c.e = CurrentEngine
        /\ Mutating(dry.c.log) = {}
        /\ dry.n = Cardinality(UNION {Range(g.containers) : g \in Range(found.val)})
        /\ dry.err = real.err => dry.n = real.n

\* a dry run counted the containers of two orphaned sessions and they are
\* all still there
C13_Witness ==
    /\ last.op = "cleanup" /\ last.dryRun /\ last.err = NIL
    /\ Cardinality(last.session) >= 2
    /\ last.n >= 4
    /\ Mutating(last.log) = {}
    /\ \A g \in last.session : Range(g.containers) \subseteq containers

(***************************************************************************)
(* The in-container supervisor step by step: each connection attempt and   *)
(* each child process is a step of the process                             *)
(***************************************************************************)
maxAttempts == 30

\* the supervisor has returned: main() turns the outcome into the exit status
Returned(outcome) ==
    [sv EXCEPT !.pc = "done", !.exit = mainExit(outcome)]

\* iso in-env run starts in a container whose ISO_SERVICES names services,
\* of which never are not reachable however long it waits; sup holds the
\* hooks and the command
InEnv(services, never, sup) ==
    /\ sv.pc = "idle"
    /\ sv' = [pc |-> IF services = <<>> THEN "pre" ELSE "wait",
              todo |-> services, attempt |-> 1, never |-> never, sup |-> sup,
              steps |-> <<>>, code |-> 0, exit |-> NotRun]
    /\ UNCHANGED <<containers, networks, volumes, images, cfg, last, nm, procs, disk, tty>>

\* a supervisor that goes on to the hooks when a service stays unreachable
Dial_Proceeds(ok) ==
    /\ sv.pc = "wait"
    /\ Head(sv.todo) \in sv.never => ~ok
    /\ sv' = IF ok \/ sv.attempt = maxAttempts
             THEN [sv EXCEPT !.todo = Tail(@), !.attempt = 1,
                             !.pc = IF Tail(sv.todo) = <<>> THEN "pre" ELSE "wait"]
             ELSE [sv EXCEPT !.attempt = @ + 1]
    /\ UNCHANGED <<containers, networks, volumes, images, cfg, last, nm, procs, disk, tty>>

\* waitForServices, one net.DialTimeout: on success the next service is
\* waited for, on the last failed attempt the supervisor returns the error,
\* otherwise it sleeps and tries again
Dial(ok) ==
    /\ sv.pc = "wait"
    /\ Head(sv.todo) \in sv.never => ~ok
    /\ sv' = IF ok
             THEN [sv EXCEPT !.todo = Tail(@), !.attempt = 1,
                             !.pc = IF Tail(sv.todo) = <<>> THEN "pre" ELSE "wait"]
             ELSE IF sv.attempt = maxAttempts
             THEN Returned([err |-> "service not ready"])
             ELSE [sv EXCEPT !.attempt = @ + 1]
    /\ UNCHANGED <<containers, networks, volumes, images, cfg, last, nm, procs, disk, tty>>

\* a supervisor that runs the command whatever pre-run.sh exits with
PreRun_Ignored ==
    /\ sv.pc = "pre"
    /\ sv' = IF sv.sup.pre = Absent THEN [sv EXCEPT !.pc = "main"]
             ELSE [sv EXCEPT !.pc = "main", !.steps = Append(@, "pre")]
    /\ UNCHANGED <<containers, networks, volumes, images, cfg, last, nm, procs, disk, tty>>

\* pre-run.sh, when it exists, runs to its end; a nonzero exit is returned
PreRun ==
    /\ sv.pc = "pre"
    /\ sv' = IF sv.sup.pre = Absent THEN [sv EXCEPT !.pc = "main"]
             ELSE IF sv.sup.pre = 0
             THEN [sv EXCEPT !.pc = "main", !.steps = Append(@, "pre")]
             ELSE [Returned([err |-> "exit", code |-> sv.sup.pre])
                      EXCEPT !.steps = Append(@, "pre")]
    /\ UNCHANGED <<containers, networks, volumes, images, cfg, last, nm, procs, disk, tty>>

\* the command runs to its end; its exit code is kept. A command that
\* cannot be started (NotRun) is an error returned at once
MainRun ==
    /\ sv.pc = "main"
    /\ sv' = IF sv.sup.main = NotRun
             THEN [Returned([err |-> "failed to execute command"])
                      EXCEPT !.steps = Append(@, "main")]
             ELSE [sv EXCEPT !.pc = "post", !.code = sv.sup.main,
                             !.steps = Append(@, "main")]
    /\ UNCHANGED <<containers, networks, volumes, images, cfg, last, nm, procs, disk, tty>>

\* post-run.sh, when it exists, runs to its end and its failure is logged;
\* the supervisor returns the command's exit code
PostRun ==
    /\ sv.pc = "post"
    /\ sv' = [Returned(IF sv.code # 0 THEN [err |-> "exit", code |-> sv.code]
                       ELSE [err |-> NIL])
                 EXCEPT !.steps = IF sv.sup.post = Absent THEN @ ELSE Append(@, "post")]
    /\ UNCHANGED <<containers, networks, volumes, images, cfg, last, nm, procs, disk, tty>>

\* the process is gone
Exited ==
    /\ sv.pc = "done"
    /\ sv' = [pc |-> "idle"]
    /\ UNCHANGED <<containers, networks, volumes, images, cfg, last, nm, procs, disk, tty>>

SupNext ==
    \/ \E services \in {<<>>, <<SvcA>>, <<SvcA, SvcB>>} :
       \E never \in SUBSET Range(services) :
       \E pre \in {Absent, 0, 3}, main \in {NotRun, 0, 7}, post \in {Absent, 0, 5} :
           InEnv(services, never, Sup(TRUE, pre, main, post))
    \/ \E ok \in BOOLEAN : Dial(ok)
    \/ PreRun
    \/ MainRun
    \/ PostRun
    \/ Exited

SupSpec == NamesInit /\ [][SupNext]_vars

\* every connection attempt ends: the dial has a timeout of one second
SupLiveSpec == SupSpec /\ WF_vars(\E ok \in BOOLEAN : Dial(ok))

\* C14: a supervisor with a service that is never reachable makes at most
\* maxAttempts attempts at a service, starts neither hook nor the command
\* while that service is waited for, and in the end returns a nonzero status
\* without having started any of them
C14_UnreachableServiceFails ==
    /\ [](sv.pc \in {"wait", "done"} => sv.attempt <= maxAttempts)
    /\ [](sv.pc # "idle" /\ sv.never # {} => sv.steps = <<>>)
    /\ (sv.pc # "idle" /\ sv.never # {})
           ~> (sv.pc = "done" /\ sv.exit # 0 /\ sv.steps = <<>>
               /\ sv.todo # <<>> /\ sv.attempt = maxAttempts)

\* the second of two services was never reachable: the supervisor gave up
\* at its last attempt
C14_Witness ==
    /\ sv.pc = "done" /\ sv.todo = <<SvcB>> /\ SvcB \in sv.never
    /\ sv.attempt = maxAttempts /\ sv.exit = 1 /\ sv.steps = <<>>

\* C15: the steps start in the order wait, pre-run.sh, command, post-run.sh;
\* the command starts only after an existing pre-run.sh exited 0, a nonzero
\* pre-run.sh ends the run with its code before the command; post-run.sh,
\* when it exists, runs after the command whatever the command's code, and
\* the exit status is the command's, whatever post-run.sh exits with
C15_StepOrder ==
    sv.pc # "idle" =>
        /\ sv.steps # <<>> => sv.todo = <<>>
        /\ \E pre, main, post \in BOOLEAN :
              sv.steps = (IF pre THEN <<"pre">> ELSE <<>>)
                         \o (IF main THEN <<"main">> ELSE <<>>)
                         \o (IF post THEN <<"post">> ELSE <<>>)
        /\ "main" \in Range(sv.steps) =>
              \/ sv.sup.pre = Absent /\ "pre" \notin Range(sv.steps)
              \/ sv.sup.pre = 0 /\ "pre" \in Range(sv.steps)
        /\ (sv.pc = "done" /\ "pre" \in Range(sv.steps) /\ sv.sup.pre # 0) =>
              /\ sv.steps = <<"pre">>
              /\ sv.exit = OsExit(sv.sup.pre)
        /\ "post" \in Range(sv.steps) => "main" \in Range(sv.steps)
        /\ (sv.pc = "done" /\ "main" \in Range(sv.steps) /\ sv.sup.main # NotRun) =>
              /\ sv.sup.post # Absent => "post" \in Range(sv.steps)
              /\ sv.exit = OsExit(sv.sup.main)

\* both hooks exist: pre-run.sh exited 0, the command exited 7, post-run.sh
\* exited 5, and the supervisor's status is 7
C15_Witness ==
    /\ sv.pc = "done" /\ sv.steps = <<"pre", "main", "post">>
    /\ sv.sup.main = 7 /\ sv.sup.post = 5 /\ sv.exit = 7

(***************************************************************************)
(* What an invocation computes from its arguments and its directory        *)
(***************************************************************************)
MaxDepth == 3 \* directory names in the caller's working directory

\* getSession is called with --session, ISO_SESSION and what rand.Read yields
Resolve(flagValue, envSession, token) ==
    /\ nm.phase = "idle"
    /\ \E r \in {getSession(flagValue, envSession, token)} :
           nm' = [phase |-> "resolved", flag |-> flagValue, env |-> envSession,
                  token |-> token, name |-> r.name, ephemeral |-> r.ephemeral]
    /\ UNCHANGED <<containers, networks, volumes, images, cfg, last, procs, disk, sv, tty>>

\* filepath.Rel of two clean absolute paths: up from base to the common
\* ancestor, then down to targ
Rel(base, targ) ==
    LET common == CHOOSE n \in 0..Len(base.segs) :
                    /\ n <= Len(targ.segs)
                    /\ SubSeq(base.segs, 1, n) = SubSeq(targ.segs, 1, n)
                    /\ \A m \in (n + 1)..Len(base.segs) :
                          m > Len(targ.segs)
                          \/ SubSeq(base.segs, 1, m) # SubSeq(targ.segs, 1, m)
    IN  Path(FALSE, [i \in 1..(Len(base.segs) - common) |-> <<".", ".">>]
                    \o SubSeq(targ.segs, common + 1, Len(targ.segs)))

\* the string of a relative path: its names with "/" between, "." when empty
RECURSIVE PathString(_)
PathString(segs) ==
    IF segs = <<>> THEN <<".">>
    ELSE IF Len(segs) = 1 THEN segs[1]
    ELSE segs[1] \o <<"/">> \o PathString(Tail(segs))

\* a working directory computed without the test for paths that lead up
execWorkDir_NoGuard(workDir, mountRoot, cwd) ==
    Join(workDir, Rel(mountRoot, cwd))

\* runCommand and execInPeer: the working directory of the exec, from the
\* configured workdir, the mount root and os.Getwd
execWorkDir(workDir, mountRoot, cwd) ==
    LET relPath == PathString(Rel(mountRoot, cwd).segs)
    IN  IF /\ relPath # <<".">>
           /\ Head(relPath) # "/"
           /\ relPath # <<".", ".">>
           /\ ~HasPrefix(relPath, <<".", ".">>)
        THEN Join(workDir, Rel(mountRoot, cwd))
        ELSE workDir

\* a command is run from cwd in the project mounted from mountRoot
Locate(workDir, mountRoot, cwd) ==
    /\ nm.phase = "idle"
    /\ nm' = [phase |-> "located", workDir |-> workDir, mountRoot |-> mountRoot,
              cwd |-> cwd, execDir |-> execWorkDir(workDir, mountRoot, cwd)]
    /\ UNCHANGED <<containers, networks, volumes, images, cfg, last, procs, disk, sv, tty>>

ArgsNext ==
    \/ \E flagValue \in {<<>>, <<"s">>, S_eph \o Digit(1)}, envSession \in {<<>>, <<"t">>},
          token \in {Digit(1), <<"A", "_">>} :
           Resolve(flagValue, envSession, token)
    \/ \E workDir \in {Path(TRUE, <<<<"w", "s">>>>), Path(TRUE, <<<<"s">>, <<"a">>>>)},
          mountRoot \in {RootP, Dir(RootP)},
          cwd \in {Path(TRUE, q) :
                     q \in UNION {[1..n -> {<<"w">>, <<"p">>, <<"a">>, <<".", ".", "x">>}]
                                     : n \in 0..MaxDepth}} :
           Locate(workDir, mountRoot, cwd)
    \/ Forget

ArgsSpec == NamesInit /\ [][ArgsNext]_vars

\* C16: the session is the --session value when that is not empty, else
\* ISO_SESSION when that is not empty, else "eph-" and the generated token;
\* it is ephemeral exactly when both are empty
C16_SessionPrecedence ==
    nm.phase = "resolved" =>
        /\ nm.flag # <<>> => nm.name = nm.flag
        /\ (nm.flag = <<>> /\ nm.env # <<>>) => nm.name = nm.env
        /\ (nm.flag = <<>> /\ nm.env = <<>>) => nm.name = S_eph \o nm.token
        /\ nm.ephemeral <=> (nm.flag = <<>> /\ nm.env = <<>>)

\* a --session value and ISO_SESSION were both given: the flag won, and the
\* session is not ephemeral although its name begins with "eph-"
C16_Witness ==
    /\ nm.phase = "resolved"
    /\ nm.flag = S_eph \o Digit(1) /\ nm.env = <<"t">>
    /\ nm.name = nm.flag /\ ~nm.ephemeral

\* C19: from a working directory inside the project root, at the offset r
\* from it, the exec's working directory is the workdir followed by r; from
\* the project root it is the workdir
C19_InsideMapsToOffset ==
    (/\ nm.phase = "located"
     /\ Len(nm.cwd.segs) >= Len(nm.mountRoot.segs)
     /\ SubSeq(nm.cwd.segs, 1, Len(nm.mountRoot.segs)) = nm.mountRoot.segs) =>
        nm.execDir = Path(TRUE, nm.workDir.segs
                                \o SubSeq(nm.cwd.segs, Len(nm.mountRoot.segs) + 1,
                                          Len(nm.cwd.segs)))

\* C20: from a working directory outside the project root the exec's working
\* directory is the workdir, and from any working directory it is the
\* workdir or a directory below it
C20_NeverEscapesWorkdir ==
    nm.phase = "located" =>
        /\ ~(/\ Len(nm.cwd.segs) >= Len(nm.mountRoot.segs)
             /\ SubSeq(nm.cwd.segs, 1, Len(nm.mountRoot.segs)) = nm.mountRoot.segs)
           => nm.execDir = nm.workDir
        /\ Len(nm.execDir.segs) >= Len(nm.workDir.segs)
        /\ SubSeq(nm.execDir.segs, 1, Len(nm.workDir.segs)) = nm.workDir.segs
        /\ nm.execDir.abs

\* the caller stood in a sibling of the project root whose name ends a
\* path that leads up and down again
C20_Witness ==
    /\ nm.phase = "located"
    /\ nm.mountRoot = RootP
    /\ nm.cwd = Path(TRUE, <<<<"w">>, <<"a">>, <<"p">>>>)
    /\ nm.execDir = nm.workDir

(***************************************************************************)
(* The caller's terminal during runCommand and execInPeer: each call that  *)
(* can fail is a step, and a return runs the deferred functions            *)
(***************************************************************************)
MaxResize == 1 \* resize calls of an exec after which no further SIGWINCH is delivered

\* newDockerClient: the context handed to every engine call and to the
\* select on the output is context.Background(), which is never done
newDockerClient == [ctx |-> "background"]

\* the function is about to return err (or the exit code); the deferred
\* functions have not run yet
Returning(err, code) ==
    [tty EXCEPT !.pc = "return", !.err = err, !.code = code]

\* stty: between invocations the user may leave the terminal in either mode
Stty(mode) ==
    /\ tty.pc = "idle"
    /\ tty.mode # mode
    /\ tty' = [pc |-> "idle", mode |-> mode]
    /\ UNCHANGED <<containers, networks, volumes, images, cfg, last, nm, procs, disk, sv>>

\* runCommand or execInPeer reaches term.IsTerminal(os.Stdin.Fd())
IsTerminal(fn, isTTY) ==
    /\ tty.pc = "idle"
    /\ tty' = [pc |-> IF isTTY THEN "save" ELSE "user", mode |-> tty.mode, fn |-> fn,
               isTTY |-> isTTY, entry |-> tty.mode, oldState |-> NIL,
               defers |-> <<>>, ran |-> <<>>, err |-> NIL, code |-> 0,
               ctx |-> newDockerClient.ctx, calls |-> <<>>, listener |-> FALSE,
               out |-> NIL]
    /\ UNCHANGED <<containers, networks, volumes, images, cfg, last, nm, procs, disk, sv>>

\* a function that saves the terminal state and defers nothing
SaveState_NoDefer(ok) ==
    /\ tty.pc = "save"
    /\ tty' = IF ok THEN [tty EXCEPT !.pc = "raw", !.oldState = tty.mode]
              ELSE Returning("failed to save terminal state", 0)
    /\ UNCHANGED <<containers, networks, volumes, images, cfg, last, nm, procs, disk, sv>>

\* term.SaveState; on success the restore is deferred
SaveState(ok) ==
    /\ tty.pc = "save"
    /\ tty' = IF ok THEN [tty EXCEPT !.pc = "raw", !.oldState = tty.mode,
                                     !.defers = <<"restore">> \o @]
              ELSE Returning("failed to save terminal state", 0)
    /\ UNCHANGED <<containers, networks, volumes, images, cfg, last, nm, procs, disk, sv>>

\* term.MakeRaw
MakeRaw(ok) ==
    /\ tty.pc = "raw"
    /\ tty' = IF ok THEN [tty EXCEPT !.pc = "user", !.mode = "raw"]
              ELSE Returning("failed to set terminal to raw mode", 0)
    /\ UNCHANGED <<containers, networks, volumes, images, cfg, last, nm, procs, disk, sv>>

\* user.Current, ContainerExecCreate, ContainerExecAttach (whose response is
\* closed by a deferred call) and, after the output, ContainerExecInspect;
\* calls notes each engine call of the exec and whether it succeeded
ExecCall(ok, exitCode) ==
    /\ tty.pc \in {"user", "create", "attach", "inspect"}
    /\ \E t \in {IF tty.pc = "user" THEN tty
                  ELSE [tty EXCEPT !.calls = Append(@, <<tty.pc, ok>>)]} :
       tty' = CASE ~ok /\ tty.pc = "user" -> Returning("failed to get current user", 0)
                [] ~ok /\ tty.pc = "create" ->
                       [Returning("failed to create exec", 0) EXCEPT !.calls = t.calls]
                [] ~ok /\ tty.pc = "attach" ->
                       [Returning("failed to attach to exec", 0) EXCEPT !.calls = t.calls]
                [] ~ok /\ tty.pc = "inspect" ->
                       [Returning("failed to inspect exec", 0) EXCEPT !.calls = t.calls]
                [] ok /\ tty.pc = "user" -> [t EXCEPT !.pc = "create"]
                [] ok /\ tty.pc = "create" -> [t EXCEPT !.pc = "attach"]
                [] ok /\ tty.pc = "attach" ->
                       [t EXCEPT !.pc = IF tty.isTTY THEN "resize" ELSE "pumps",
                                 !.defers = <<"close">> \o @]
                [] ok /\ tty.pc = "inspect" ->
                       [Returning(NIL, exitCode) EXCEPT !.calls = t.calls]
    /\ UNCHANGED <<containers, networks, volumes, images, cfg, last, nm, procs, disk, sv>>

\* interactive mode: term.GetWinsize and, when that worked, the initial
\* ContainerExecResize, whose failure is logged only; then the goroutine
\* that listens for SIGWINCH is started
Resize(winsize, ok) ==
    /\ tty.pc = "resize"
    /\ tty' = [tty EXCEPT !.pc = "pumps", !.listener = TRUE,
                          !.calls = IF winsize THEN Append(@, <<"resize", ok>>) ELSE @]
    /\ UNCHANGED <<containers, networks, volumes, images, cfg, last, nm, procs, disk, sv>>

\* the goroutines that copy stdin and the output are started
Pumps ==
    /\ tty.pc = "pumps"
    /\ tty' = [tty EXCEPT !.pc = "output"]
    /\ UNCHANGED <<containers, networks, volumes, images, cfg, last, nm, procs, disk, sv>>

\* SIGWINCH while the command runs: the listener resizes the exec
Winch(ok) ==
    /\ tty.pc \in {"pumps", "output"}
    /\ tty.listener
    /\ Cardinality({i \in 1..Len(tty.calls) : tty.calls[i][1] = "resize"}) <= MaxResize
    /\ tty' = [tty EXCEPT !.calls = Append(@, <<"resize", ok>>)]
    /\ UNCHANGED <<containers, networks, volumes, images, cfg, last, nm, procs, disk, sv>>

\* a select that goes on to the inspection whatever the output yielded
Output_AlwaysInspects(event) ==
    /\ tty.pc = "output"
    /\ event = "done" => tty.ctx = "cancelled"
    /\ tty' = [tty EXCEPT !.pc = "inspect", !.out = event]
    /\ UNCHANGED <<containers, networks, volumes, images, cfg, last, nm, procs, disk, sv>>

\* the select: the output ends, fails, or the context is done first; the
\* Done channel of a context that cannot be cancelled never yields
Output(event) ==
    /\ tty.pc = "output"
    /\ event = "done" => tty.ctx = "cancelled"
    /\ tty' = CASE event = "eof" -> [tty EXCEPT !.pc = "inspect", !.out = event]
                [] event = "error" ->
                       [Returning("failed to read output", 0) EXCEPT !.out = event]
                [] event = "done" ->
                       [Returning("context canceled", 0) EXCEPT !.out = event]
    /\ UNCHANGED <<containers, networks, volumes, images, cfg, last, nm, procs, disk, sv>>

\* the return: the deferred functions run, last deferred first; the
\* restore sets the terminal to oldState when that is not nil
RunDeferred ==
    /\ tty.pc = "return"
    /\ tty' = [tty EXCEPT !.pc = "returned", !.defers = <<>>, !.ran = tty.defers,
                          !.mode = IF "restore" \in Range(tty.defers) /\ tty.oldState # NIL
                                   THEN tty.oldState ELSE @]
    /\ UNCHANGED <<containers, networks, volumes, images, cfg, last, nm, procs, disk, sv>>

\* the caller has the result
Leave ==
    /\ tty.pc = "returned"
    /\ tty' = [pc |-> "idle", mode |-> tty.mode]
    /\ UNCHANGED <<containers, networks, volumes, images, cfg, last, nm, procs, disk, sv>>

TermNext ==
    \/ \E mode \in {"cooked", "raw"} : Stty(mode)
    \/ \E fn \in {"runCommand", "execInPeer"}, isTTY \in BOOLEAN : IsTerminal(fn, isTTY)
    \/ \E ok \in BOOLEAN : SaveState(ok)
    \/ \E ok \in BOOLEAN : MakeRaw(ok)
    \/ \E ok \in BOOLEAN, exitCode \in {0, 7} : ExecCall(ok, exitCode)
    \/ \E winsize, ok \in BOOLEAN : Resize(winsize, ok)
    \/ Pumps
    \/ \E ok \in BOOLEAN : Winch(ok)
    \/ \E event \in {"eof", "error", "done"} : Output(event)
    \/ RunDeferred
    \/ Leave

TermSpec == NamesInit /\ [][TermNext]_vars

\* C17: when runCommand or execInPeer has returned after saving the
\* terminal state, the deferred restore has run and the terminal is in the
\* saved state; without a terminal on stdin the mode never changes
C17_TerminalRestored ==
    /\ (tty.pc = "returned" /\ tty.oldState # NIL) =>
          /\ "restore" \in Range(tty.ran)
          /\ tty.mode = tty.oldState
    /\ (tty.pc # "idle" /\ ~tty.isTTY) => tty.mode = tty.entry

\* the output failed while the command ran in raw mode, and the terminal
\* is cooked again when execInPeer has returned
C17_Witness ==
    /\ tty.pc = "returned" /\ tty.fn = "execInPeer" /\ tty.isTTY
    /\ tty.err = "failed to read output"
    /\ tty.ran = <<"close", "restore">>
    /\ tty.oldState = "cooked" /\ tty.mode = "cooked"

\* C24: the scope of an exec that waits for its output can be cancelled, and
\* a call that returned the cancellation did so from the wait for the
\* output, without the end of the output and without an inspection of the
\* exit code
C24_CancellationUnblocks ==
    /\ tty.pc = "output" => tty.ctx # "background"
    /\ (tty.pc \in {"return", "returned"} /\ tty.err = "context canceled") =>
          /\ tty.out = "done"
          /\ \A i \in 1..Len(tty.calls) : tty.calls[i][1] # "inspect"

\* C29: the engine calls of an exec are create, attach, resizes, inspect in
\* this order; attach follows a create that succeeded; resizes and the
\* resize listener exist in interactive mode only, after an attach that
\* succeeded and after nothing but attach and resizes; the inspection is the
\* last call and follows the end of the output, and a call whose output
\* failed or whose context was done has not inspected
C29_ExecOrder ==
    tty.pc # "idle" =>
        /\ \A i \in 1..Len(tty.calls) :
              /\ tty.calls[i][1] = "create" => i = 1
              /\ tty.calls[i][1] = "attach" => i = 2 /\ tty.calls[1] = <<"create", TRUE>>
              /\ tty.calls[i][1] = "resize" =>
                    /\ tty.isTTY /\ i > 2 /\ tty.calls[2] = <<"attach", TRUE>>
                    /\ \A j \in 3..i : tty.calls[j][1] = "resize"
              /\ tty.calls[i][1] = "inspect" =>
                    /\ i = Len(tty.calls) /\ i > 2
                    /\ tty.calls[2] = <<"attach", TRUE>>
                    /\ tty.out = "eof"
        /\ tty.listener => tty.isTTY /\ <<"attach", TRUE>> \in Range(tty.calls)
        /\ tty.pc \in {"pumps", "output"} =>
              /\ <<"attach", TRUE>> \in Range(tty.calls)
              /\ tty.isTTY => tty.listener
        /\ tty.out \in {"error", "done"} =>
              \A i \in 1..Len(tty.calls) : tty.calls[i][1] # "inspect"
        /\ (tty.pc \in {"return", "returned"} /\ tty.err = NIL) =>
              tty.calls[Len(tty.calls)] = <<"inspect", TRUE>>

\* an interactive command whose terminal was resized twice, at the start
\* and while it ran, has ended and its exit code 7 was inspected
C29_Witness ==
    /\ tty.pc = "returned" /\ tty.isTTY /\ tty.err = NIL /\ tty.code = 7
    /\ tty.calls = <<<<"create", TRUE>>, <<"attach", TRUE>>, <<"resize", TRUE>>,
                     <<"resize", FALSE>>, <<"inspect", TRUE>>>>

(***************************************************************************)
(* Runs whose teardown fails                                               *)
(***************************************************************************)
\* the engine calls of the cleanup paths: the listing Stop begins with, the
\* stop and removal of containers, and the removal of networks and volumes
TeardownFaults ==
    {<<"ContainerList", <<"stop">>>>}
    \cup {F(x) : x \in {"ContainerStop", "ContainerRemove", "NetworkRemove", "VolumeRemove"}}

MaskInit ==
    /\ containers = {}
    /\ networks = {}
    /\ volumes = {}
    /\ images = {}
    /\ cfg = ServiceConfig
    /\ last = NoOutcome
    /\ nm = [phase |-> "idle"]
    /\ procs = IdleProcs
    /\ HostIdle

MaskNext ==
    \/ \E args \in SessionArgs, order \in Orders(cfg.services),
          fwd \in {{}, {F("ExecInspect")}},
          td \in {{}, {<<"ContainerList", <<"stop">>>>}, {F("ContainerStop")},
                  {F("NetworkRemove"), F("VolumeRemove")}},
          sup \in {SupOk, Sup(TRUE, Absent, 7, Absent)} :
           Run(args, order, fwd \cup td, sup)
    \/ Stop(DefaultArgs, <<>>, {})

MaskSpec == MaskInit /\ [][MaskNext]_vars

\* C18: in any state, what a run reports (its error, the exit code of its
\* command, the exit status of the invocation) when calls of the cleanup
\* paths fail is what it reports when they succeed
C18_CleanupNeverMasks ==
    \A args \in SessionArgs :
        HasToken(args) =>
        \A fwd \in {{}, {F("ExecInspect")}}, sup \in {SupOk, Sup(TRUE, Absent, 7, Absent)} :
        \A sess \in {getSession(args[1], args[2], Token)} :
        \A cm \in {Manager(cfg, sess.name, SetToSeq(cfg.services))} :
        \A base \in {runHandler(cm, Ctx(CurrentEngine, fwd, Known), sess.ephemeral, sup)} :
        \A td \in {{t} : t \in TeardownFaults} \cup {TeardownFaults} :
        \A with \in {runHandler(cm, Ctx(CurrentEngine, fwd \cup td, Known),
                                sess.ephemeral, sup)} :
            /\ with.ran.err = base.ran.err
            /\ with.ran.code = base.ran.code
            /\ with.exit = base.exit

\* an ephemeral run failed at the inspection of its exec, the listing its
\* Stop begins with failed too, the session's container is still there, and
\* the invocation reports the error of the run
C18_Witness ==
    /\ last.op = "run" /\ last.ephemeral
    /\ last.err = "failed to inspect exec" /\ last.exit = 1
    /\ ~last.clean
    /\ \E k \in containers : k.session = last.session

(***************************************************************************)
(* Peers (iso peers up, iso peers down)                                    *)
(***************************************************************************)
getPeerContainerName(worktree, peerName) ==
    worktree \o <<"-","i","s","o","-","p","e","e","r","-">> \o peerName

\* the container startPeer asks the engine to create
peerSpec(cm, peerName) ==
    [id |-> NoId, name |-> getPeerContainerName(cm.worktreeProjectName, peerName),
     running |-> FALSE,
     project |-> cm.projectName, dir |-> cm.projectRoot, session |-> <<"p","e","e","r","s">>,
     role |-> peerName, service |-> FALSE, fresh |-> FALSE, peer |-> TRUE,
     ephemeral |-> FALSE, autoRemove |-> FALSE,
     nets   |-> {cm.peersNetworkName},
     mounts |-> Range(sessionVolumeNames(cm))
                \cup (IF cm.cacheDir THEN {} ELSE Range(cacheVolumeNames(cm)))]

startPeer(cm, c, peerName) ==
    LET name      == getPeerContainerName(cm.worktreeProjectName, peerName)
        running   == isContainerRunning(c, name)
        exists    == containerExists(c, name)
        got       == getContainerID(c, name)
        restarted == ContainerStart(c, F("ContainerStart"), got.val)
    IN
    CHOOSE result \in
     {CHOOSE result \in
       {CHOOSE result \in
         {IF running.err # NIL THEN [c |-> c, err |-> running.err]
          ELSE IF running.val THEN [c |-> c, err |-> got.err]
          ELSE IF exists.err # NIL THEN [c |-> c, err |-> exists.err]
          ELSE IF exists.val
               THEN IF got.err # NIL THEN [c |-> c, err |-> got.err] ELSE restarted
          ELSE IF vols.err # NIL THEN [c |-> vols.c, err |-> vols.err]
          ELSE IF created.err # NIL THEN [c |-> created.c, err |-> created.err]
          ELSE started
          : started \in {ContainerStart(created.c, F("ContainerStart"), created.id)}} : TRUE
        : created \in {ContainerCreate(vols.c, F("ContainerCreate"), peerSpec(cm, peerName))}} : TRUE
      : vols \in {ensureVolumes(cm, c)}} : TRUE

\* client.NetworkConnect: the container joins the network
NetworkConnect(c, networkName, id) ==
    LET c1 == Logged(c, "NetworkConnect", NameOf(c, id))
    IN  IF Fails(c, "NetworkConnect") THEN [c |-> c1, err |-> ErrEngine]
        ELSE IF networkName \notin c.e.networks THEN [c |-> c1, err |-> ErrNotFound]
        ELSE IF \E k \in ById(c.e, id) : networkName \in k.nets
             THEN [c |-> c1, err |-> ErrExists]
        ELSE [c |-> [c1 EXCEPT !.e.containers =
                        {IF k.id = id THEN [k EXCEPT !.nets = @ \cup {networkName}] ELSE k
                            : k \in @}],
              err |-> NIL]

\* a startAllPeers that connects no service to the peers network
connectServices_Skips(cm, c, todo) == c

\* startAllPeers: connect each service to the peers network; errors are
\* logged only
RECURSIVE connectServices(_, _, _)
connectServices(cm, c, todo) ==
    IF todo = <<>> THEN c
    ELSE LET got == getContainerID(c, getServiceContainerName(cm.projectName, cm.session,
                                                              Head(todo)))
         IN  IF got.err # NIL THEN connectServices(cm, c, Tail(todo))
             ELSE connectServices(cm, NetworkConnect(c, cm.peersNetworkName, got.val).c,
                                  Tail(todo))

RECURSIVE startPeerLoop(_, _, _)
startPeerLoop(cm, c, todo) ==
    IF todo = <<>> THEN [c |-> c, err |-> NIL]
    ELSE CHOOSE result \in
           {IF one.err # NIL THEN one ELSE startPeerLoop(cm, one.c, Tail(todo))
            : one \in {startPeer(cm, c, Head(todo))}} : TRUE

\* startAllPeers; peerNames empty means every peer of the peers file
startAllPeers(cm, c, peerNames) ==
    CHOOSE result \in
     {CHOOSE result \in
       {CHOOSE result \in
         {CHOOSE result \in
           {IF ~cm.peers.present THEN [c |-> c, err |-> "no peers configured"]
            ELSE IF image.err # NIL THEN [c |-> image.c, err |-> image.err]
            ELSE IF pnet.err # NIL THEN [c |-> pnet.c, err |-> pnet.err]
            ELSE IF cm.services # <<>> /\ net.err # NIL THEN [c |-> net.c, err |-> net.err]
            ELSE IF cm.services # <<>> /\ services.err # NIL
                 THEN [c |-> services.c, err |-> services.err]
            ELSE IF \E i \in 1..Len(peerNames) : peerNames[i] \notin cm.peers.peers
                 THEN [c |-> connected, err |-> "unknown peer"]
            ELSE startPeerLoop(cm, connected,
                               IF peerNames = <<>> THEN SetToSeq(cm.peers.peers)
                               ELSE SetToSeq(Range(peerNames)))
            : connected \in {IF cm.services = <<>> THEN pnet.c
                             ELSE connectServices(cm, services.c, cm.services)}} : TRUE
          : services \in {startAllServices(cm, net.c)}} : TRUE
        : net \in {ensureNetwork(cm, pnet.c)}} : TRUE
      : image \in {ensureImage(cm, c)},
        pnet \in {ensurePeersNetwork(cm, ensureImage(cm, c).c)}} : TRUE

\* the loop of stopAllServices: the container of a service is looked up as
\* <project>_<service>
RECURSIVE stopServiceLoop(_, _, _)
stopServiceLoop(cm, c, todo) ==
    IF todo = <<>> THEN [c |-> c, err |-> NIL]
    ELSE LET name   == cm.projectName \o S_under \o Head(todo)
             exists == containerExists(c, name)
             got    == getContainerID(c, name)
         IN  IF exists.err # NIL THEN [c |-> c, err |-> exists.err]
             ELSE IF ~exists.val THEN stopServiceLoop(cm, c, Tail(todo))
             ELSE IF got.err # NIL THEN [c |-> c, err |-> got.err]
             ELSE CHOOSE result \in
                    {IF removed.err # NIL THEN [c |-> removed.c, err |-> removed.err]
                     ELSE stopServiceLoop(cm, removed.c, Tail(todo))
                     : removed \in {stopAndRemoveContainer(c, got.val)}} : TRUE

\* stopAllServices: the loop, then the session network; a failure to remove
\* the network is logged only
stopAllServices(cm, c) ==
    IF cm.services = <<>> THEN [c |-> c, err |-> NIL]
    ELSE CHOOSE result \in
           {IF stopped.err # NIL THEN stopped
            ELSE [c |-> removeNetwork(stopped.c, cm.networkName).c, err |-> NIL]
            : stopped \in {stopServiceLoop(cm, c, cm.services)}} : TRUE

\* dockerClient.listPeerContainers: the containers of the project labelled
\* as peers
listPeerContainers(c, projectName) ==
    IF Fails(c, "ContainerList") THEN [err |-> ErrEngine, val |-> {}]
    ELSE [err |-> NIL, val |-> {k \in c.e.containers : k.project = projectName /\ k.peer}]

\* stopAllPeers: errors of the removals are logged only
stopAllPeers(cm, c) ==
    CHOOSE result \in
      {IF ~cm.peers.present THEN [c |-> c, err |-> NIL]
       ELSE IF peerContainers.err # NIL THEN [c |-> c, err |-> peerContainers.err]
       ELSE IF peerContainers.val = {} THEN [c |-> c, err |-> NIL]
       ELSE [c |-> removeNetwork(
                     stopAllServices(cm, stopAndRemoveAll(c,
                                            SetToSeq({k.id : k \in peerContainers.val}))).c,
                     cm.peersNetworkName).c,
             err |-> NIL]
       : peerContainers \in {listPeerContainers(c, cm.projectName)}} : TRUE

PeerN == <<"n">>

\* a project with two services and a peers file that names one peer
PeersInit ==
    /\ containers = {}
    /\ networks = {}
    /\ volumes = {}
    /\ images = {}
    /\ cfg = Config(RootP, NoGit, {SvcA, SvcB}, <<P_a>>, <<>>, FALSE,
                    [present |-> TRUE, network |-> <<>>, peers |-> {PeerN}])
    /\ last = NoOutcome
    /\ nm = [phase |-> "idle"]
    /\ procs = IdleProcs
    /\ HostIdle

\* iso peers up [peer-names...]
PeersUp(session, order, peerNames, faults) ==
    /\ \E cm \in {Manager(cfg, session, order)} :
       \E r \in {startAllPeers(cm, Ctx(CurrentEngine, faults, Known), peerNames)} :
           /\ Install(r.c.e)
           /\ last' = Outcome("peers up", cm.session, FALSE, r.err,
                              mainExit([err |-> r.err]), r.c, NoRun)
    /\ UNCHANGED <<cfg, nm, procs, disk, sv, tty>>

\* iso peers down
PeersDown(session, order, faults) ==
    /\ \E cm \in {Manager(cfg, session, order)} :
       \E r \in {stopAllPeers(cm, Ctx(CurrentEngine, faults, Known))} :
           /\ Install(r.c.e)
           /\ last' = Outcome("peers down", cm.session, FALSE, r.err,
                              mainExit([err |-> r.err]), r.c, NoRun)
    /\ UNCHANGED <<cfg, nm, procs, disk, sv, tty>>

PeersNext ==
    \/ \E session \in {<<>>, <<"s">>}, order \in Orders(cfg.services),
          peerNames \in {<<>>, <<PeerN>>, <<<<"z">>>>},
          faults \in {{}, {F("ContainerCreate")}, {<<"ServiceStart", SvcB>>}} :
           PeersUp(session, order, peerNames, faults)
    \/ \E session \in {<<>>, <<"s">>}, order \in Orders(cfg.services),
          faults \in {{}, {F("ContainerStop")}} :
           PeersDown(session, order, faults)

PeersSpec == PeersInit /\ [][PeersNext]_vars

\* C21: after a peers down that returned without error and whose engine
\* calls all worked, the engine holds no peer container of the project, no
\* persistent service container of the manager's session, and no peers
\* network
C21_PeersDownLeavesNothing ==
    [][(/\ last'.op = "peers down" /\ last' # last
        /\ last'.err = NIL /\ last'.clean) =>
          \A cm \in {Manager(cfg, last'.session, <<>>)} :
              /\ \A k \in containers' :
                    /\ ~(k.peer /\ k.project = cm.projectName)
                    /\ ~(k.service /\ ~k.fresh /\ k.project = cm.projectName
                         /\ k.session = cm.session)
              /\ cm.peersNetworkName \notin networks']_vars

(***************************************************************************)
(* Names computed by two managers, with engine operations in between       *)
(***************************************************************************)
P_ab == <<"/","a","/","b","/">>

\* newContainerManager runs in a checkout with a session, a peers file and
\* a configured path; the names it and its name functions yield for a
\* service or peer called role are noted with what they are computed from
Construct(k, session, path, role, peers) ==
    /\ nm.phase \in {"idle", "one"}
    /\ \E cm \in {Manager(Config(k[1], k[2], {role}, <<path>>, <<path>>, FALSE, peers),
                          session, <<role>>)} :
       \E built \in {[root  |-> cm.projectRoot,
                      busy  |-> containers # {},
                      from  |-> [base |-> cm.baseProjectName,
                                 worktree |-> cm.worktreeProjectName,
                                 session |-> cm.session, path |-> path, role |-> role,
                                 peers |-> peers],
                      names |-> [shell   |-> cm.containerName,
                                 service |-> getServiceContainerName(cm.projectName,
                                                                     cm.session, role),
                                 peer    |-> getPeerContainerName(cm.worktreeProjectName,
                                                                  role),
                                 network |-> cm.networkName,
                                 peersNetwork |-> cm.peersNetworkName,
                                 volume  |-> getVolumeNameForPath(cm.worktreeProjectName,
                                                                  cm.session, path),
                                 cache   |-> getCacheVolumeNameForPath(cm.baseProjectName,
                                                                       path)]]} :
           nm' = IF nm.phase = "idle" THEN [phase |-> "one", m1 |-> built]
                 ELSE [phase |-> "two", m1 |-> nm.m1, m2 |-> built]
    /\ UNCHANGED <<containers, networks, volumes, images, cfg, last, procs, disk, sv, tty>>

PureInit ==
    /\ containers = {}
    /\ networks = {}
    /\ volumes = {}
    /\ images = {}
    /\ cfg = ServiceConfig
    /\ last = NoOutcome
    /\ nm = [phase |-> "idle"]
    /\ procs = IdleProcs
    /\ HostIdle

PureNext ==
    \/ \E k \in {<<RootQ, NoGit>>, <<Path(TRUE, << <<"x">>, <<"q">> >>), NoGit>>,
                 <<RootQ, Git(GitDirOfP, Path(TRUE, GitDirOfP.segs \o <<<<"q">>>>))>>},
          session \in {<<>>, <<"s">>}, path \in {P_ab, P_a}, role \in {SvcA},
          peers \in {NoPeers, [present |-> TRUE, network |-> <<>>],
                     [present |-> TRUE, network |-> <<"o">>]} :
           Construct(k, session, path, role, peers)
    \/ Forget
    \/ \E order \in Orders(cfg.services) : Start(DefaultArgs, order, {})
    \/ Stop(DefaultArgs, <<>>, {})

PureSpec == PureInit /\ [][PureNext]_vars

\* C23: two managers whose base project name, worktree name, session, path,
\* role and peers network override are equal have computed the same seven
\* names, whatever directory each was constructed in and whatever the engine
\* held at the time; and the names of the path /a/b/ end in a-b
C23_NamesAreFunctions ==
    /\ nm.phase = "two" =>
          (nm.m1.from = nm.m2.from => nm.m1.names = nm.m2.names)
    /\ (nm.phase \in {"one", "two"} /\ nm.m1.from.path = P_ab) =>
          /\ nm.m1.names.volume =
                nm.m1.from.worktree \o S_dash
                \o (IF nm.m1.from.session = S_default THEN <<>>
                    ELSE nm.m1.from.session \o S_dash)
                \o <<"a","-","b">>
          /\ nm.m1.names.cache =
                nm.m1.from.base \o <<"-","c","a","c","h","e","-","a","-","b">>

\* the second manager was constructed in another directory, after the
\* engine had been given containers, from the same identities as the first
C23_Witness ==
    /\ nm.phase = "two"
    /\ nm.m1.from = nm.m2.from
    /\ nm.m1.root # nm.m2.root
    /\ ~nm.m1.busy /\ nm.m2.busy
    /\ nm.m1.from.path = P_ab
    /\ nm.m1.names.volume = <<"q","-","s","-","a","-","b">>
    /\ nm.m2.names = nm.m1.names

(***************************************************************************)
(* The lifecycle of a persistent session of a project with services, a     *)
(* session volume and a cache volume, with removals that fail              *)
(***************************************************************************)
LifeInit ==
    /\ containers = {}
    /\ networks = {}
    /\ volumes = {}
    /\ images = {}
    /\ cfg = Config(RootP, NoGit, {SvcA, SvcB}, <<P_a>>, <<P_b>>, FALSE, NoPeers)
    /\ last = NoOutcome
    /\ nm = [phase |-> "idle"]
    /\ procs = IdleProcs
    /\ HostIdle

LifeNext ==
    \/ \E order \in Orders(cfg.services),
          faults \in {{}, {F("ContainerStart")}, {F("ImageBuild")}} :
           Run(DefaultArgs, order, faults, SupOk)
    \/ \E order \in Orders(cfg.services), faults \in {{}, {<<"ServiceStart", SvcB>>}} :
           Start(DefaultArgs, order, faults)
    \/ \E faults \in {{}, {F("ContainerRemove")}} : Stop(DefaultArgs, <<>>, faults)
    \/ \E faults \in {{}, {F("ContainerRemove")}} : Reset(DefaultArgs, <<>>, faults)

LifeSpec == LifeInit /\ [][LifeNext]_vars

\* the calls of the log that are call on target
Calls(log, call, target) == {i \in 1..Len(log) : log[i] = <<call, target>>}

\* C25: in any state, a reset of the session leaves every container but the
\* session's shell container, and every network, volume and image, as they
\* are, also when the stop or the removal fails; when nothing fails the shell
\* container is gone and nil is returned; and when there is no shell
\* container it returns nil and has issued no mutating engine call
C25_ResetTouchesShellOnly ==
    \A faults \in {{}, {F("ContainerStop")}, {F("ContainerRemove")}} :
    \A cm \in {Manager(cfg, S_default, SetToSeq(cfg.services))} :
    \A r \in {resetContainer(cm, Ctx(CurrentEngine, faults, {}))} :
        /\ {k \in r.c.e.containers : k.name # cm.containerName}
              = {k \in containers : k.name # cm.containerName}
        /\ r.c.e.networks = networks
        /\ r.c.e.volumes = volumes
        /\ r.c.e.images = images
        /\ \A i \in 1..Len(r.c.log) :
              /\ r.c.log[i][1] \in {"ContainerStop", "ContainerRemove"}
              /\ r.c.log[i][2] = cm.containerName
        /\ faults = {} => r.err = NIL /\ ByName(r.c.e, cm.containerName) = {}
        /\ ByName(CurrentEngine, cm.containerName) = {} => r.err = NIL /\ r.c.log = <<>>

\* a reset has removed the shell container of a started session: both
\* services still run, and the network, the session volume, the cache volume
\* and the image are there
C25_Witness ==
    /\ last.op = "reset" /\ last.err = NIL
    /\ last.log = <<<<"ContainerStop", LastManager.containerName>>,
                    <<"ContainerRemove", LastManager.containerName>>>>
    /\ ByName(CurrentEngine, LastManager.containerName) = {}
    /\ Cardinality({k \in containers : k.service /\ k.running}) = 2
    /\ LastManager.networkName \in networks
    /\ Range(sessionVolumeNames(LastManager)) \cup Range(cacheVolumeNames(LastManager))
          \subseteq volumes
    /\ LastManager.imageName \in images

\* the first call of the log that is call on target, 0 when there is none
First(log, call, target) ==
    IF Calls(log, call, target) = {} THEN 0
    ELSE CHOOSE i \in Calls(log, call, target) : \A j \in Calls(log, call, target) : i <= j

\* C27: in any state, a run of the persistent session whose fresh services
\* started does this with the shell container: one that exists stopped is
\* started, with no image build and no create, and the command is exec'd in
\* it; when none exists and the run succeeds the image exists, the container
\* was created after any image build and started after it was created, and
\* the command is exec'd in the container created; and a run whose image
\* build, create or start of the shell container failed returns an error and
\* has exec'd nothing
C27_ShellDispatch ==
    \A faults \in {{}, {F("ImageBuild")}, {F("ContainerCreate")}, {F("ContainerStart")}} :
    \A cm \in {Manager(cfg, S_default, SetToSeq(cfg.services))} :
    \A r \in {runCommand(cm, Ctx(CurrentEngine, faults, {}), SupOk)} :
    \A before \in {ByName(CurrentEngine, cm.containerName)} :
    \A build \in {First(r.c.log, "ImageBuild", cm.imageName)},
       create \in {First(r.c.log, "ContainerCreate", cm.containerName)},
       start \in {First(r.c.log, "ContainerStart", cm.containerName)} :
        /\ (before # {} /\ \A k \in before : ~k.running) =>
              /\ build = 0 /\ create = 0
              /\ r.err = NIL => start # 0 /\ {r.execId} = {k.id : k \in before}
        /\ (before = {} /\ r.err = NIL) =>
              /\ cm.imageName \in r.c.e.images
              /\ build < create /\ create < start
              /\ \E k \in ByName(r.c.e, cm.containerName) : k.id = r.execId /\ k.running
        /\ r.steps # <<>> =>
              \E k \in ByName(r.c.e, cm.containerName) : k.id = r.execId /\ k.running
        /\ (\E i \in {build, create, start} : i # 0 /\ F(r.c.log[i][1]) \in faults) =>
              r.err # NIL /\ r.steps = <<>> /\ r.execId = NoId

\* a run has found the shell container stopped, has started it and has
\* exec'd the command in it
C27_Witness ==
    /\ last.op = "run" /\ last.err = NIL
    /\ Calls(last.log, "ContainerStart", LastManager.containerName) # {}
    /\ Calls(last.log, "ContainerCreate", LastManager.containerName) = {}
    /\ Calls(last.log, "ImageBuild", LastManager.imageName) = {}
    /\ \E k \in ByName(CurrentEngine, LastManager.containerName) :
          k.id = last.run.execId /\ k.running

C26_ImageKept ==
    [][(LastManager.imageName \in images /\ last' # last) =>
          /\ LastManager.imageName \in images'
          /\ \A i \in 1..Len(last'.log) :
                last'.log[i][1] \notin {"ImageBuild", "ImageRemove"}]_vars

\* a stop, reset or prune has returned with the image in place and made
\* no build call
C26_Witness ==
    /\ last.op \in {"stop", "reset", "prune"} /\ last.err = NIL
    /\ LastManager.imageName \in images
    /\ \A i \in 1..Len(last.log) : last.log[i][1] # "ImageBuild"

(***************************************************************************)
(* The environment of the exec                                             *)
(***************************************************************************)
E_eq           == <<"=">>
E_ISO_WORKDIR  == <<"I","S","O","_","W","O","R","K","D","I","R">>
E_ISO_SESSION  == <<"I","S","O","_","S","E","S","S","I","O","N">>
E_ISO_UID      == <<"I","S","O","_","U","I","D">>
E_ISO_GID      == <<"I","S","O","_","G","I","D">>
E_ISO_PEER_NAME == <<"I","S","O","_","P","E","E","R","_","N","A","M","E">>
E_TERM         == <<"T","E","R","M">>
E_peers        == <<"p","e","e","r","s">>
E_ghostty      == <<"x","t","e","r","m","-","g","h","o","s","t","t","y">>
E_256color     == <<"x","t","e","r","m","-","2","5","6","c","o","l","o","r">>

\* fmt.Sprintf("%s=%s", key, value)
EnvEntry(key, value) == key \o E_eq \o value

\* strings.SplitN(arg, "=", 2) of an arg that contains "="
SplitN2(arg) ==
    LET at == CHOOSE i \in 1..Len(arg) :
                  arg[i] = "=" /\ \A j \in 1..(i - 1) : arg[j] # "="
    IN  <<SubSeq(arg, 1, at - 1), SubSeq(arg, at + 1, Len(arg))>>

LowerCase == {"a","b","c","d","e","f","g","h","i","j","k","l","m",
              "n","o","p","q","r","s","t","u","v","w","x","y","z"}
UpperCase == {"A","B","C","D","E","F","G","H","I","J","K","L","M",
              "N","O","P","Q","R","S","T","U","V","W","X","Y","Z"}
Digits == {"0","1","2","3","4","5","6","7","8","9"}

isValidEnvVarName(name) ==
    /\ Len(name) # 0
    /\ name[1] \in LowerCase \cup UpperCase \cup {"_"}
    /\ \A i \in 2..Len(name) : name[i] \in LowerCase \cup UpperCase \cup Digits \cup {"_"}

\* the run handler: an arg is taken for the environment
looksLikeEnvVar(arg) ==
    /\ Contains(arg, E_eq)
    /\ ~HasPrefix(arg, S_dash)
    /\ isValidEnvVarName(SplitN2(arg)[1])

\* the run handler: the leading KEY=VALUE args are the caller's
\* environment, the rest is the command
RECURSIVE splitCommand(_, _)
splitCommand(envVars, command) ==
    IF command = <<>> THEN [envVars |-> envVars, actualCommand |-> <<>>]
    ELSE IF looksLikeEnvVar(Head(command))
         THEN splitCommand(Append(envVars, Head(command)), Tail(command))
         ELSE [envVars |-> envVars, actualCommand |-> command]

\* the fixed entries of runCommand and of execInPeer, TERM among them
fixedEnv(fn, workDir, session, user, peerName, isTTY, termValue) ==
    <<EnvEntry(E_ISO_WORKDIR, workDir),
      EnvEntry(E_ISO_SESSION, IF fn = "execInPeer" THEN E_peers ELSE session),
      EnvEntry(E_ISO_UID, user.Uid),
      EnvEntry(E_ISO_GID, user.Gid)>>
    \o (IF fn = "execInPeer" THEN <<EnvEntry(E_ISO_PEER_NAME, peerName)>> ELSE <<>>)
    \o (IF isTTY /\ termValue # <<>>
        THEN <<EnvEntry(E_TERM, IF termValue = E_ghostty THEN E_256color ELSE termValue)>>
        ELSE <<>>)

\* for key, value := range cm.config.Environment, in the order the map yields
configEnv(environment, order) ==
    [i \in 1..Len(order) |-> EnvEntry(order[i], environment[order[i]])]

\* a list whose caller entries come first
execEnv_CallerFirst(fn, workDir, session, user, peerName, isTTY, termValue, environment, order, envVars) ==
    envVars
    \o fixedEnv(fn, workDir, session, user, peerName, isTTY, termValue)
    \o configEnv(environment, order)

\* runCommand and execInPeer: the Env of the exec
execEnv(fn, workDir, session, user, peerName, isTTY, termValue, environment, order, envVars) ==
    fixedEnv(fn, workDir, session, user, peerName, isTTY, termValue)
    \o configEnv(environment, order)
    \o envVars

\* the keys a list of entries sets
EnvKeys(env) == {SplitN2(env[i])[1] : i \in 1..Len(env)}

\* the value the process sees for a key the list sets: the last entry's
Effective(env, key) ==
    SplitN2(env[CHOOSE i \in 1..Len(env) :
                  /\ SplitN2(env[i])[1] = key
                  /\ \A j \in (i + 1)..Len(env) : SplitN2(env[j])[1] # key])[2]

EnvUser == [Uid |-> <<"5">>, Gid |-> <<"6">>]
EnvWorkDir == <<"/","w">>

\* config.yml environment maps
Environments ==
    {<<>>,
     (E_TERM :> <<"p">>),
     (E_ISO_UID :> <<"0">>) @@ (<<"A">> :> <<"p">>),
     (E_TERM :> <<"p">>) @@ (<<"A">> :> <<"p">>) @@ (<<"B">> :> <<>>)}

\* what follows iso run on the command line
Commands ==
    {<<<<"g","o">>>>,
     <<EnvEntry(E_TERM, <<"c">>), <<"g","o">>>>,
     <<EnvEntry(E_ISO_UID, <<"c">>), EnvEntry(<<"A">>, <<"c">>), <<"g","o">>>>,
     <<EnvEntry(<<"A">>, <<"c">>), EnvEntry(<<"A">>, <<"d">>), <<"g","o">>>>,
     <<EnvEntry(<<"1","A">>, <<"c">>), EnvEntry(<<"B">>, <<"c">>)>>,
     <<<<"g","o">>, EnvEntry(<<"A">>, <<"c">>)>>}

\* the exec of a command is about to be created
ExecEnv(fn, session, isTTY, termValue, environment, order, command) ==
    /\ tty.pc = "idle"
    /\ \E split \in {splitCommand(<<>>, command)} :
           tty' = [pc |-> "env", mode |-> tty.mode, fn |-> fn, session |-> session,
                   isTTY |-> isTTY, termValue |-> termValue,
                   environment |-> environment, envVars |-> split.envVars,
                   actualCommand |-> split.actualCommand,
                   env |-> execEnv(fn, EnvWorkDir, session, EnvUser, PeerN, isTTY,
                                   termValue, environment, order, split.envVars)]
    /\ UNCHANGED <<containers, networks, volumes, images, cfg, last, nm, procs, disk, sv>>

\* the exec is over
ExecOver ==
    /\ tty.pc = "env"
    /\ tty' = [pc |-> "idle", mode |-> tty.mode]
    /\ UNCHANGED <<containers, networks, volumes, images, cfg, last, nm, procs, disk, sv>>

EnvInit == Init

EnvNext ==
    \/ \E fn \in {"runCommand", "execInPeer"}, session \in {S_default, <<"s">>},
          isTTY \in BOOLEAN, termValue \in {<<>>, <<"x">>, E_ghostty},
          environment \in Environments, command \in Commands :
          \E order \in Orders(DOMAIN environment) :
              ExecEnv(fn, session, isTTY, termValue, environment, order, command)
    \/ ExecOver

EnvSpec == EnvInit /\ [][EnvNext]_vars

\* C30: the Env of an exec is the fixed entries, then one entry for every
\* variable config.yml declares, then the caller's entries; so the value a
\* key has is that of the caller's last entry for it, else that of the
\* project's entry, else that of the fixed entry
C30_LaterWins ==
    tty.pc = "env" =>
        \A env \in {tty.env} :
        \A nc \in {Len(tty.envVars)} :
        \A np \in {Cardinality(DOMAIN tty.environment)} :
        \A nf \in {Len(env) - nc - np} :
        \A fixed \in {SubSeq(env, 1, nf)} :
        \A project \in {SubSeq(env, nf + 1, nf + np)} :
        \A caller \in {SubSeq(env, nf + np + 1, Len(env))} :
            /\ nf >= 4
            /\ caller = tty.envVars
            /\ {project[i] : i \in 1..np}
                 = {EnvEntry(k, tty.environment[k]) : k \in DOMAIN tty.environment}
            /\ EnvKeys(fixed) \subseteq {E_ISO_WORKDIR, E_ISO_SESSION, E_ISO_UID,
                                         E_ISO_GID, E_ISO_PEER_NAME, E_TERM}
            /\ {E_ISO_WORKDIR, E_ISO_SESSION, E_ISO_UID, E_ISO_GID} \subseteq EnvKeys(fixed)
            /\ E_TERM \in EnvKeys(fixed) <=> (tty.isTTY /\ tty.termValue # <<>>)
            /\ \A key \in EnvKeys(env) :
                  Effective(env, key) =
                      IF key \in EnvKeys(caller) THEN Effective(caller, key)
                      ELSE IF key \in DOMAIN tty.environment THEN tty.environment[key]
                      ELSE Effective(fixed, key)

\* TERM is set at the three levels and has the caller's value, and ISO_UID
\* is set by the project over the fixed entry
C30_Witness ==
    /\ tty.pc = "env"
    /\ tty.isTTY /\ tty.termValue = E_ghostty
    /\ E_TERM \in DOMAIN tty.environment
    /\ E_TERM \in EnvKeys(tty.envVars)
    /\ Effective(tty.env, E_TERM) = <<"c">>
    /\ tty.env[5] = EnvEntry(E_TERM, E_256color)

(***************************************************************************)
(* Sessions named as generated ones are                                    *)
(***************************************************************************)
\* --session and ISO_SESSION of invocations, names that begin with "eph-"
\* among them
AutoArgs ==
    {<<<<>>, <<>>>>, <<<<>>, S_default>>, <<S_eph \o <<"x">>, <<>>>>,
     <<<<>>, S_eph \o <<"y">>>>}

AutoNext ==
    \/ \E args \in AutoArgs, faults \in {{}, {F("ContainerCreate")}} :
          Run(args, <<>>, faults, SupOk)
    \/ \E args \in AutoArgs : Stop(args, <<>>, {})

AutoSpec == Init /\ [][AutoNext]_vars

\* C31: after a run, the shell container of its session has auto-remove
\* enabled and is labelled ephemeral exactly when getSession classified the
\* session as ephemeral
C31_AutoRemoveIffEphemeral ==
    last.op = "run" =>
        \A k \in ByName(CurrentEngine, LastManager.containerName) :
            /\ k.autoRemove <=> last.ephemeral
            /\ k.ephemeral <=> last.ephemeral

\* C32: a start that no engine failure disturbs, of a session whose shell
\* container already exists, reports success and leaves exactly one shell
\* container of that name
C32_StartIdempotent ==
    [][(/\ last'.op = "start" /\ last' # last
        /\ last'.forward /\ last'.clean
        /\ ByName(CurrentEngine,
                  Manager(cfg, last'.session, <<>>).containerName) # {}) =>
          /\ last'.err = NIL
          /\ Cardinality({k \in containers' :
                            k.name = Manager(cfg, last'.session, <<>>).containerName})
               = 1]_vars

(***************************************************************************)
(* Two runs of generated sessions at once: the sweep of the one among the  *)
(* engine calls of the other                                               *)
(***************************************************************************)
\* the manager of invocation p, whose generated session no other has
SweepManager(p) == Manager(cfg, S_eph \o Digit(p), <<SvcA>>)

At(p, pc, err) == procs' = [procs EXCEPT ![p] = [Idle EXCEPT !.pc = pc, !.op = "run", !.err = err]]

\* newContainerManager: the startup sweep
Sweep(p) ==
    /\ procs[p].pc = "idle"
    /\ \E c \in {cleanupStaleResources(SweepManager(p), Ctx(CurrentEngine, {}, {}))} :
           Install(c.e)
    /\ At(p, "constructed", NIL)
    /\ UNCHANGED <<cfg, last, nm, disk, sv, tty>>

\* startFreshServices: the session network
FreshNetwork(p) ==
    /\ procs[p].pc = "constructed"
    /\ \E r \in {ensureNetwork(SweepManager(p), Ctx(CurrentEngine, {}, {}))} :
           /\ Install(r.c.e)
           /\ At(p, IF r.err = NIL THEN "network" ELSE "failed", r.err)
    /\ UNCHANGED <<cfg, last, nm, disk, sv, tty>>

\* startFreshServices: the containers of the services
FreshServices(p) ==
    /\ procs[p].pc = "network"
    /\ \E cm \in {SweepManager(p)}, c \in {Ctx(CurrentEngine, {}, {})} :
       \E r \in {startFreshLoop(cm, c, Now(c), cm.services, {})} :
           /\ Install(r.c.e)
           /\ At(p, IF r.err = NIL THEN "services" ELSE "failed", r.err)
    /\ UNCHANGED <<cfg, last, nm, disk, sv, tty>>

\* runCommand and startContainer: the image and the volumes
ShellVolumes(p) ==
    /\ procs[p].pc = "services"
    /\ \E cm \in {SweepManager(p)} :
       \E image \in {ensureImage(cm, Ctx(CurrentEngine, {}, {}))} :
       \E r \in {ensureVolumes(cm, image.c)} :
           /\ Install(r.c.e)
           /\ At(p, IF r.err = NIL THEN "volumes" ELSE "failed", r.err)
    /\ UNCHANGED <<cfg, last, nm, disk, sv, tty>>

\* startContainer: the shell container is created and started
ShellCreate(p) ==
    /\ procs[p].pc = "volumes"
    /\ \E cm \in {SweepManager(p)} :
       \E created \in {ContainerCreate(Ctx(CurrentEngine, {}, {}), F("ContainerCreate"),
                                       shellSpec(cm))} :
       \E started \in {IF created.err # NIL THEN created
                       ELSE ContainerStart(created.c, F("ContainerStart"), created.id)} :
           /\ Install(started.c.e)
           /\ At(p, IF started.err = NIL THEN "shell" ELSE "failed", started.err)
    /\ UNCHANGED <<cfg, last, nm, disk, sv, tty>>

\* the run handler's cleanup of the generated session
SweepExit(p) ==
    /\ procs[p].pc \in {"shell", "failed"}
    /\ \E cm \in {SweepManager(p)}, c \in {Ctx(CurrentEngine, {}, {})} :
       \E fresh \in {{k.id : k \in {x \in containers : x.fresh /\ x.session = cm.session}}} :
       \E r \in {stopContainer(cm, stopFreshServices(cm, c, fresh))} :
           Install(r.c.e)
    /\ At(p, "idle", NIL)
    /\ UNCHANGED <<cfg, last, nm, disk, sv, tty>>

SweepInit ==
    /\ containers = {}
    /\ networks = {}
    /\ volumes = {}
    /\ images = {}
    /\ cfg = ServiceConfig
    /\ last = NoOutcome
    /\ nm = [phase |-> "idle"]
    /\ procs = IdleProcs
    /\ HostIdle

SweepNext ==
    \E p \in Invocations :
        \/ Sweep(p)
        \/ FreshNetwork(p)
        \/ FreshServices(p)
        \/ ShellVolumes(p)
        \/ ShellCreate(p)
        \/ SweepExit(p)

SweepSpec == SweepInit /\ [][SweepNext]_vars

\* C33: the network a run has ensured exists until its service containers
\* are created, and the volumes it has ensured exist until its shell
\* container is created, whatever another invocation does meanwhile
C33_SweepSparesInProgress ==
    \A p \in Invocations :
        /\ procs[p].pc = "network" => SweepManager(p).networkName \in networks
        /\ procs[p].pc = "volumes" =>
              Range(sessionVolumeNames(SweepManager(p))) \subseteq volumes

(***************************************************************************)
(* Two runs of one session at once: the clock each reads for its run id    *)
(***************************************************************************)
MaxClock == 3

\* fmt.Sprintf("%d", time.Now().UnixNano()) when the clock reads n
runIDAt(n) == Digit(n)

ClockManager(session) == Manager(cfg, session, <<SvcA>>)

\* the clock of the host moves on
Tick ==
    /\ nm.phase = "clock"
    /\ nm.now < MaxClock
    /\ nm' = [nm EXCEPT !.now = @ + 1]
    /\ UNCHANGED <<containers, networks, volumes, images, cfg, last, procs, disk, sv, tty>>

\* runCommand of invocation p reads the clock and starts fresh services
FreshStart(p, session) ==
    /\ procs[p].pc = "idle"
    /\ \E cm \in {ClockManager(session)} :
       \E r \in {startFreshServices(cm, Ctx(CurrentEngine, {}, {}), runIDAt(nm.now))} :
           /\ Install(r.c.e)
           /\ procs' = [procs EXCEPT ![p] =
                           [pc |-> "fresh", op |-> "run", todo |-> session,
                            saw |-> r.ids, err |-> r.err,
                            names |-> {getFreshServiceName(cm.projectName, cm.session,
                                                           cm.services[i], runIDAt(nm.now))
                                         : i \in 1..Len(cm.services)}]]
    /\ UNCHANGED <<cfg, last, nm, disk, sv, tty>>

\* the deferred stopFreshServices of invocation p
FreshStop(p) ==
    /\ procs[p].pc = "fresh"
    /\ \E c \in {stopFreshServices(ClockManager(procs[p].todo),
                                   Ctx(CurrentEngine, {}, {}), procs[p].saw)} :
           Install(c.e)
    /\ procs' = [procs EXCEPT ![p] = Idle]
    /\ UNCHANGED <<cfg, last, nm, disk, sv, tty>>

ClockInit ==
    /\ containers = {}
    /\ networks = {}
    /\ volumes = {}
    /\ images = {}
    /\ cfg = ServiceConfig
    /\ last = NoOutcome
    /\ nm = [phase |-> "clock", now |-> 1]
    /\ procs = IdleProcs
    /\ HostIdle

ClockNext ==
    \/ Tick
    \/ \E p \in Invocations, session \in {S_default, <<"s">>} : FreshStart(p, session)
    \/ \E p \in Invocations : FreshStop(p)

ClockSpec == ClockInit /\ [][ClockNext]_vars

\* C34: two runs that are in progress at once have no fresh container name
\* in common, and the create of a fresh service container of neither meets
\* a name conflict
C34_FreshNamesUnique ==
    \A p, q \in Invocations :
        (procs[p].pc = "fresh" /\ procs[q].pc = "fresh" /\ p # q) =>
            /\ procs[p].names \cap procs[q].names = {}
            /\ procs[p].err # ErrConflict

(***************************************************************************)
(* Shell container and network names of two worktrees and sessions         *)
(***************************************************************************)
\* project roots whose directory names a user may choose
ApartRoots ==
    {RootP, Path(TRUE, << <<"w">>, <<"p","-","a">> >>), Path(TRUE, << <<"w">>, <<"p","_","a">> >>)}

ApartSessions == {<<>>, S_default, <<"a">>, <<"b">>, <<"s">>}

\* two managers are constructed, each for a project root and a session
Apart(root1, s1, root2, s2) ==
    /\ nm.phase = "idle"
    /\ \E cm1 \in {Manager(Config(root1, NoGit, {}, <<>>, <<>>, FALSE, NoPeers), s1, <<>>)},
          cm2 \in {Manager(Config(root2, NoGit, {}, <<>>, <<>>, FALSE, NoPeers), s2, <<>>)} :
           nm' = [phase |-> "apart",
                  worktree1 |-> cm1.worktreeProjectName, s1 |-> cm1.session,
                  container1 |-> cm1.containerName, network1 |-> cm1.networkName,
                  worktree2 |-> cm2.worktreeProjectName, s2 |-> cm2.session,
                  container2 |-> cm2.containerName, network2 |-> cm2.networkName]
    /\ UNCHANGED <<containers, networks, volumes, images, cfg, last, procs, disk, sv, tty>>

ApartNext ==
    \/ \E root1, root2 \in ApartRoots, s1, s2 \in ApartSessions : Apart(root1, s1, root2, s2)
    \/ Forget

ApartSpec == NamesInit /\ [][ApartNext]_vars

\* C35: two managers whose worktree names or sessions differ have different
\* shell container names and different session network names
C35_NamesApart ==
    (nm.phase = "apart" /\ <<nm.worktree1, nm.s1>> # <<nm.worktree2, nm.s2>>) =>
        /\ nm.container1 # nm.container2
        /\ nm.network1 # nm.network2

\* the engine calls of a log that bear one of the given names
CallsOf(log, calls) == {i \in 1..Len(log) : log[i][1] \in calls}

\* C36: in a destructive cleanup every network removal comes after every
\* container stop and removal; a stop and a removal are attempted for every
\* container of every session given, also when stops fail; the network of
\* every session is then asked to be removed, and the cleanup returns no error
C36_NetworksAfterContainers ==
    [][(last'.op = "cleanup" /\ last' # last /\ ~last'.dryRun /\ last'.err = NIL) =>
          /\ \A i \in CallsOf(last'.log, {"NetworkRemove"}) :
             \A j \in CallsOf(last'.log, {"ContainerStop", "ContainerRemove"}) : j < i
          /\ Cardinality(CallsOf(last'.log, {"ContainerStop"})) = last'.n
          /\ Cardinality(CallsOf(last'.log, {"ContainerRemove"})) = last'.n
          /\ \A i \in CallsOf(last'.log, {"ContainerStop"}) :
                i + 1 \in CallsOf(last'.log, {"ContainerRemove"})
          /\ \A g \in last'.session :
                Calls(last'.log, "NetworkRemove", getNetworkName(g.project, g.session)) # {}]_vars

\* a cleanup of two sessions whose stops all failed has gone on to the
\* removals and to both networks
C36_Witness ==
    /\ last.op = "cleanup" /\ ~last.dryRun /\ last.err = NIL
    /\ ~last.clean
    /\ Cardinality(last.session) = 2
    /\ last.n >= 2
    /\ Cardinality(CallsOf(last.log, {"NetworkRemove"})) = 2
    /\ Cardinality(CallsOf(last.log, {"ContainerRemove"})) = last.n

(***************************************************************************)
(* Peers of a project whose directory is deleted                           *)
(***************************************************************************)
PeerOrphanInit ==
    /\ containers = {}
    /\ networks = {}
    /\ volumes = {}
    /\ images = {}
    /\ cfg \in {Config(RootP, NoGit, {SvcA}, <<P_a>>, <<>>, FALSE,
                       [present |-> TRUE, network |-> net, peers |-> {PeerN}])
                  : net \in {<<>>, <<"n","w">>}}
    /\ last = NoOutcome
    /\ nm = [phase |-> "idle"]
    /\ procs = IdleProcs
    /\ HostIdle

PeerOrphanNext ==
    \/ \E session \in {<<>>, <<"s">>}, peerNames \in {<<>>, <<PeerN>>} :
           osStat(disk, cfg.root) = NIL /\ PeersUp(session, <<SvcA>>, peerNames, {})
    \/ RemoveAll(RootP)
    \/ Make(RootP, TRUE)
    \/ \E dryRun \in BOOLEAN : Cleanup(dryRun, {})

PeerOrphanSpec == PeerOrphanInit /\ [][PeerOrphanNext]_vars

\* C37: a destructive cleanup asks for the removal of the session network
\* of every orphaned group of shell and service containers and of the peers
\* network of every orphaned group of peer containers
C37_RemovesAttachedNetwork ==
    [][(last'.op = "cleanup" /\ last' # last /\ ~last'.dryRun /\ last'.err = NIL) =>
          \A g \in last'.session :
              IF \E i \in 1..Len(g.containers) : g.containers[i].peer
              THEN Calls(last'.log, "NetworkRemove",
                         getPeersNetworkName(g.project, cfg.peers)) # {}
              ELSE Calls(last'.log, "NetworkRemove",
                         getNetworkName(g.project, g.session)) # {}]_vars

(***************************************************************************)
(* The pumps of an attached exec: the goroutine that copies stdin, the     *)
(* goroutine that copies the output, and the select of runCommand          *)
(***************************************************************************)
MaxChunks == 2

\* ContainerExecAttach has returned the connection; both goroutines start
Attached(isTTY) ==
    /\ tty.pc = "idle"
    /\ tty' = [pc |-> "select", mode |-> tty.mode, isTTY |-> isTTY,
               stdin |-> "copying", sent |-> 0, remoteStdin |-> "open",
               command |-> "running", written |-> 0, forwarded |-> 0,
               afterClose |-> 0, output |-> "copying", outputDone |-> <<>>,
               code |-> NotRun, err |-> NIL]
    /\ UNCHANGED <<containers, networks, volumes, images, cfg, last, nm, procs, disk, sv>>

\* io.Copy(attachResp.Conn, os.Stdin) passes on what the user typed
StdinCopy ==
    /\ tty.pc \in {"select", "inspect"}
    /\ tty.stdin = "copying"
    /\ tty.sent < MaxChunks
    /\ tty' = [tty EXCEPT !.sent = @ + 1]
    /\ UNCHANGED <<containers, networks, volumes, images, cfg, last, nm, procs, disk, sv>>

\* os.Stdin is at EOF: the io.Copy returns and the goroutine closes the
\* write side of the connection
CloseWrite ==
    /\ tty.pc \in {"select", "inspect"}
    /\ tty.stdin = "copying"
    /\ tty' = [tty EXCEPT !.stdin = "closed", !.remoteStdin = "eof"]
    /\ UNCHANGED <<containers, networks, volumes, images, cfg, last, nm, procs, disk, sv>>

\* the command in the container writes to stdout or stderr
CommandWrites ==
    /\ tty.pc \in {"select", "inspect"}
    /\ tty.command = "running"
    /\ tty.written < MaxChunks
    /\ tty' = [tty EXCEPT !.written = @ + 1,
                          !.afterClose = IF tty.remoteStdin = "eof" THEN @ + 1 ELSE @]
    /\ UNCHANGED <<containers, networks, volumes, images, cfg, last, nm, procs, disk, sv>>

\* the command exits with exitCode: the output stream ends behind what was
\* written
CommandExits(exitCode) ==
    /\ tty.pc \in {"select", "inspect"}
    /\ tty.command = "running"
    /\ tty' = [tty EXCEPT !.command = "exited", !.code = exitCode]
    /\ UNCHANGED <<containers, networks, volumes, images, cfg, last, nm, procs, disk, sv>>

\* io.Copy(os.Stdout, attachResp.Conn) or stdcopy.StdCopy pass on output
OutputCopy ==
    /\ tty.pc \in {"select", "inspect"}
    /\ tty.output = "copying"
    /\ tty.forwarded < tty.written
    /\ tty' = [tty EXCEPT !.forwarded = @ + 1]
    /\ UNCHANGED <<containers, networks, volumes, images, cfg, last, nm, procs, disk, sv>>

\* the copy of the output is at EOF and returns: outputDone <- err
OutputDone ==
    /\ tty.pc \in {"select", "inspect"}
    /\ tty.output = "copying"
    /\ tty.command = "exited" /\ tty.forwarded = tty.written
    /\ tty' = [tty EXCEPT !.output = "done", !.outputDone = <<NIL>>]
    /\ UNCHANGED <<containers, networks, volumes, images, cfg, last, nm, procs, disk, sv>>

\* a select that goes on only when the stdin goroutine is through as well
Select_AwaitsStdin ==
    /\ tty.pc = "select"
    /\ tty.outputDone # <<>>
    /\ tty.stdin = "closed"
    /\ tty' = [tty EXCEPT !.pc = "inspect", !.outputDone = <<>>]
    /\ UNCHANGED <<containers, networks, volumes, images, cfg, last, nm, procs, disk, sv>>

\* the select of runCommand: case err := <-outputDone; the Done channel of
\* the client's context never yields
Select ==
    /\ tty.pc = "select"
    /\ tty.outputDone # <<>>
    /\ tty' = [tty EXCEPT !.pc = "inspect", !.outputDone = <<>>]
    /\ UNCHANGED <<containers, networks, volumes, images, cfg, last, nm, procs, disk, sv>>

\* ContainerExecInspect, and the return of its exit code or of its error
ExecInspect(ok) ==
    /\ tty.pc = "inspect"
    /\ tty' = [tty EXCEPT !.pc = "returned",
                          !.err = IF ok THEN NIL ELSE "failed to inspect exec",
                          !.code = IF ok THEN @ ELSE 0]
    /\ UNCHANGED <<containers, networks, volumes, images, cfg, last, nm, procs, disk, sv>>

PumpNext ==
    \/ \E isTTY \in BOOLEAN : Attached(isTTY)
    \/ StdinCopy
    \/ CloseWrite
    \/ CommandWrites
    \/ \E exitCode \in {0, 7} : CommandExits(exitCode)
    \/ OutputCopy
    \/ OutputDone
    \/ Select
    \/ \E ok \in BOOLEAN : ExecInspect(ok)
    \/ Leave

PumpSpec == NamesInit /\ [][PumpNext]_vars

\* the goroutine of the output and runCommand itself are scheduled, and the
\* engine answers the inspection; nothing makes stdin end
PumpLiveSpec ==
    /\ PumpSpec
    /\ WF_vars(OutputCopy) /\ WF_vars(OutputDone) /\ WF_vars(Select)
    /\ WF_vars(\E ok \in BOOLEAN : ExecInspect(ok))

\* C38: once the command has exited, so that the output ends, runCommand
\* returns, whether or not stdin has ended; and runCommand returns only when
\* the output has ended and all of it was passed on, what the command wrote
\* after the end of stdin included
C38_ReturnsOnOutputEOF ==
    /\ [](tty.pc \in {"inspect", "returned"} =>
             /\ tty.command = "exited"
             /\ tty.output = "done"
             /\ tty.forwarded = tty.written)
    /\ ((tty.pc = "select" /\ tty.command = "exited") ~> tty.pc = "returned")

\* runCommand has returned the exit code while stdin is still open
C38_Witness ==
    /\ tty.pc = "returned" /\ tty.err = NIL /\ tty.code = 7
    /\ tty.stdin = "copying"
    /\ tty.forwarded = MaxChunks

\* C39: after a peers up that returned without error and that no engine
\* failure disturbed, the container of every declared service is attached
\* to the peers network and no two containers bear one name; and when it
\* directly follows such a peers up of the same session it creates nothing
\* and leaves the containers and networks as they were
C39_PeersUpTwice ==
    [][(/\ last'.op = "peers up" /\ last' # last
        /\ last'.err = NIL /\ last'.forward /\ last'.clean) =>
          \A cm \in {Manager(cfg, last'.session, <<>>)} :
              /\ cm.peersNetworkName \in networks'
              /\ \A s \in cfg.services :
                    \E k \in containers' :
                        /\ k.name = getServiceContainerName(cm.projectName, cm.session, s)
                        /\ cm.peersNetworkName \in k.nets
              /\ \A k1, k2 \in containers' : k1.name = k2.name => k1 = k2
              /\ (/\ last.op = "peers up" /\ last.err = NIL
                  /\ last.forward /\ last.clean
                  /\ last.session = last'.session) =>
                     /\ containers' = containers
                     /\ networks' = networks
                     /\ CallsOf(last'.log, {"ContainerCreate", "NetworkCreate"}) = {}]_vars

\* a peers up has found the peers network, the services and the peer in
\* place: it asked again for the connection of both services, created
\* nothing, and returned without error
C39_Witness ==
    /\ last.op = "peers up" /\ last.err = NIL /\ last.forward /\ last.clean
    /\ Cardinality(CallsOf(last.log, {"NetworkConnect"})) = 2
    /\ CallsOf(last.log, {"ContainerCreate", "NetworkCreate", "ContainerStart"}) = {}
    /\ LastManager.peersNetworkName \in networks
    /\ \E k \in containers : k.peer /\ k.running
    /\ \A k \in containers : k.service => LastManager.peersNetworkName \in k.nets

====
